---- MODULE Spec2Model ----
(***************************************************************************)
(* StoryForge backend: the external-API gateway of app/gemini_client.py.   *)
(* One call chain is modelled as a state machine: the entry point          *)
(* (_execute_with_retry called directly, gemini_generate_text or           *)
(* gemini_generate_image), the retry loop of _execute_with_retry, the      *)
(* fallback loop of gemini_generate_text and the transport (httpx), whose  *)
(* answers are chosen by the environment.                                  *)
(***************************************************************************)
EXTENDS Integers, Sequences, FiniteSets, TLC

VARIABLES
    op,          \* entry point of this call chain
    settings,    \* app.config.settings, as read by the gateway
    args,        \* arguments of the entry point
    pc,          \* position of the call chain
    url,         \* _execute_with_retry: url
    max_retries, \* _execute_with_retry: max_retries
    attempt,     \* _execute_with_retry: loop index
    res,         \* _execute_with_retry: outcome of the last client.post
    wait_time,   \* _execute_with_retry: last backoff, in tenths of a second
    sleeps,      \* number of asyncio.sleep calls made by the retry loop
    exec_out,    \* what _execute_with_retry returned or raised
    att_out,     \* what _gemini_generate_text_with_model returned or raised
    models,      \* gemini_generate_text: attempt chain
    i,           \* gemini_generate_text: index in the chain (1-based)
    last_err,    \* gemini_generate_text: last_err
    result,      \* what the entry point returned or raised to its caller
    calls,       \* transport log: one entry per client.post issued
    inflight,    \* requests issued and not yet answered
    cfg,         \* what _sanitize_generation_config returned or raised
    rp_phase,    \* _runpod_generate_text: the try block the call is in
    rp_attempt,  \* _runpod_generate_text: index of the /run submission loop
    rp_res,      \* _runpod_generate_text: outcome of the last request
    job_id,      \* _runpod_generate_text: job_id
    sleep_s,     \* _poll_status: sleep_s, in microseconds
    elapsed,     \* _poll_status: time since start, in microseconds
    response,    \* what the endpoint handler answered the end user
    db,          \* table stories: the row of each primary key, or NoRow
    now,         \* datetime.utcnow(), in ticks
    reply,       \* what the last story endpoint answered
    latest,      \* history: per user and id, the last upsert not deleted since
    actors,      \* history: the users that have called a story endpoint
    chains,      \* the local variables of the call chains served concurrently
    user_rows,   \* the users table, in the order of insertion
    signups      \* the signup requests being served

vars == <<op, settings, args, pc, url, max_retries, attempt, res, wait_time,
          sleeps, exec_out, att_out, models, i, last_err, result, calls,
          inflight, cfg, rp_phase, rp_attempt, rp_res, job_id, sleep_s,
          elapsed, response, db, now, reply, latest, actors, chains, user_rows,
          signups>>

engineVars == <<url, max_retries, attempt, res, wait_time, sleeps, exec_out>>
textVars   == <<att_out, models, i, last_err>>
rpVars     == <<rp_phase, rp_attempt, rp_res, job_id, sleep_s, elapsed>>
storyVars  == <<db, now, reply, latest, actors>>
authVars   == <<user_rows, signups>>

----------------------------------------------------------------------------
(* Strings.  A Python str is modelled as a sequence of tokens, each token a *)
(* run of characters: "" is << >>, " gemini-2.5-pro " is                   *)
(* <<" ", "gemini-2.5-pro", " ">>.  None and "" are both falsy in every    *)
(* place the gateway reads them, and both are << >>.                       *)

S(t) == <<t>>

Padded(t) == <<" ", t, " ">>

Empty == << >>

IsSpace(t) == t = " "

RECURSIVE LStrip(_)
LStrip(s) == IF s # << >> /\ IsSpace(Head(s)) THEN LStrip(Tail(s)) ELSE s

RECURSIVE RStrip(_)
RStrip(s) == IF s # << >> /\ IsSpace(s[Len(s)])
             THEN RStrip(SubSeq(s, 1, Len(s) - 1)) ELSE s

\* str.strip()
StrStrip(s) == RStrip(LStrip(s))

LowerToken(t) == CASE t = "XSTORY" -> "xstory"
                   [] t = "Gemini-2.5-Flash" -> "gemini-2.5-flash"
                   [] t \in {"Test", "TEST"} -> "test"
                   [] OTHER -> t

\* str.lower()
StrLower(s) == [k \in DOMAIN s |-> LowerToken(s[k])]

\* a or b
Or(a, b) == IF a # Empty THEN a ELSE b

----------------------------------------------------------------------------
(* Module constants of gemini_client.py and defaults of config.py *)

RETRYABLE_STATUS_CODES == {408, 425, 429, 500, 502, 503, 504}

TextModelNames ==
    {"gemini-3-pro", "gemini-3-flash", "gemini-2.5-pro", "gemini-2.5-flash",
     "gemini-2.5-flash-lite", "gemini-2.0-flash", "gemini-2.0-flash-001",
     "gemini-2.0-flash-exp", "xstory"}

TEXT_MODEL_ALLOWLIST == {S(t) : t \in TextModelNames}

ImageModelNames ==
    {"gemini-2.5-flash-image", "gemini-2.5-flash-image-preview",
     "gemini-2.0-flash-preview-image-generation"}

IMAGE_MODEL_ALLOWLIST == {S(t) : t \in ImageModelNames}

\* "gemini" in s.lower()
ContainsGemini(s) ==
    \E k \in DOMAIN s :
        LowerToken(s[k]) \in (TextModelNames \ {"xstory"}) \cup ImageModelNames

DefaultMaxRetries == 3

DefaultTextModel == S("gemini-2.5-flash")

DefaultFallbackModel == S("gemini-2.5-pro")

DefaultImagenModel == S("gemini-2.5-flash-image")

----------------------------------------------------------------------------
(* Bounds of the model *)

\* largest max_retries passed when _execute_with_retry is called directly
MaxRetriesArg == 4

\* jitter factors of random.uniform(0.5, 2.0)
JitterTenths_UpToDouble == {5, 10, 20}

\* jitter factors random.uniform(0.5, 1.5) may return, in tenths
JitterTenths == {5, 10, 15}

\* statuses the provider answers with
Statuses == {200, 400, 404, 503}

\* model identifiers callers pass
TextModelArgs == {Empty, S("gemini-2.5-flash"), S("bogus-model"), S("xstory"),
                  S("XSTORY")}

FallbackArgs == {Empty, S("gemini-2.5-pro"), Padded("gemini-2.5-pro"),
                 S("gemini-2.5-flash"), S("bogus-model"), S("xstory"),
                 S("XSTORY")}

ImagenModelArgs == {Empty, S("gemini-2.5-flash-image"),
                    Padded("gemini-2.5-flash-image"),
                    S("imagen-3.0-generate-002"), S("bogus-model")}

----------------------------------------------------------------------------
(* _sanitize_generation_config *)

(* A Python value is [t, v]: "int" (v), "bigint" (an int beyond the float   *)
(* range, such as 10**400), "float" (v hundredths), "inf" (v the sign),     *)
(* "nan", "intstr" (a str such as "64", v its value), "numstr" (a str such  *)
(* as "0.7", v hundredths), "badstr" (a str such as "abc"), "none", "list". *)
Val(t, v) == [t |-> t, v |-> v]

\* the values callers put under a key of generationConfig
ConfigValues ==
    { Val("int", 0), Val("int", 64), Val("int", 500), Val("int", -3),
      Val("bigint", 1), Val("float", 70), Val("float", 250), Val("float", -50),
      Val("float", 4000000), Val("inf", 1), Val("inf", -1), Val("nan", 0),
      Val("intstr", 64), Val("numstr", 70), Val("badstr", 0),
      Val("none", 0), Val("list", 0) }

KnownKeys == <<"temperature", "topP", "topK", "maxOutputTokens">>

ConfigKeys == {"temperature", "topP", "topK", "maxOutputTokens", "stopSequences"}

\* largest number of keys in a generationConfig
MaxConfigKeys == 2

\* None, and the empty dict
NoConfig == << >>

GenerationConfigs ==
    UNION { [D -> ConfigValues] :
            D \in {D \in SUBSET ConfigKeys : Cardinality(D) <= MaxConfigKeys} }

\* outcome of a coercion: the value, or the exception raised
Ok(x) == [exc |-> "", val |-> x]

Exc(e) == [exc |-> e, val |-> Val("none", 0)]

\* float(x)
PyFloat(x) ==
    CASE x.t = "int"    -> Ok(Val("float", x.v * 100))
      [] x.t = "bigint" -> Exc("OverflowError")
      [] x.t \in {"float", "inf", "nan"} -> Ok(x)
      [] x.t = "intstr" -> Ok(Val("float", x.v * 100))
      [] x.t = "numstr" -> Ok(Val("float", x.v))
      [] x.t = "badstr" -> Exc("ValueError")
      [] OTHER          -> Exc("TypeError")

\* int(x): a float is truncated toward zero
PyInt(x) ==
    CASE x.t \in {"int", "bigint"} -> Ok(x)
      [] x.t = "float"  -> Ok(Val("int", IF x.v >= 0 THEN x.v \div 100
                                         ELSE -((-x.v) \div 100)))
      [] x.t = "inf"    -> Exc("OverflowError")
      [] x.t = "nan"    -> Exc("ValueError")
      [] x.t = "intstr" -> Ok(Val("int", x.v))
      [] x.t \in {"numstr", "badstr"} -> Exc("ValueError")
      [] OTHER          -> Exc("TypeError")

\* float(x) for temperature and topP, int(x) for topK and maxOutputTokens
Coerce(key, x) == IF key \in {"temperature", "topP"} THEN PyFloat(x) ELSE PyInt(x)

\* max(lo, min(hi, x)) on floats, in hundredths: min(hi, nan) is hi
ClampFloat(lo, hi, x) ==
    CASE x.t = "nan" -> Val("float", hi)
      [] x.t = "inf" -> Val("float", IF x.v > 0 THEN hi ELSE lo)
      [] OTHER       -> Val("float", IF x.v > hi THEN hi ELSE IF x.v < lo THEN lo ELSE x.v)

\* max(lo, min(hi, x)) on ints
ClampInt(lo, hi, x) ==
    CASE x.t = "bigint" -> Val("int", IF x.v > 0 THEN hi ELSE lo)
      [] OTHER          -> Val("int", IF x.v > hi THEN hi ELSE IF x.v < lo THEN lo ELSE x.v)

Clamp(key, x) ==
    CASE key = "temperature"     -> ClampFloat(0, 200, x)
      [] key = "topP"            -> ClampFloat(0, 100, x)
      [] key = "topK"            -> ClampInt(1, 128, x)
      [] key = "maxOutputTokens" -> ClampInt(1, 32768, x)

\* what the function returns (a dict) or raises
CfgReturn(d) == [kind |-> "return", dict |-> d, exc |-> ""]

CfgRaise(e) == [kind |-> "raise", dict |-> << >>, exc |-> e]

NoCfg == [kind |-> "pending", dict |-> << >>, exc |-> ""]

\* the exceptions the try blocks of the function catch
CaughtBySanitize == {"TypeError", "ValueError"}

_sanitize_generation_config(generation_config) ==
    IF generation_config = NoConfig THEN CfgReturn(<< >>)
    ELSE LET allowed == {KnownKeys[n] : n \in 1..4} \cap DOMAIN generation_config
             escaped == {k \in allowed :
                            /\ Coerce(k, generation_config[k]).exc # ""
                            /\ Coerce(k, generation_config[k]).exc \notin CaughtBySanitize}
             kept    == {k \in allowed : Coerce(k, generation_config[k]).exc = ""}
             first   == KnownKeys[CHOOSE n \in 1..4 :
                                      /\ KnownKeys[n] \in escaped
                                      /\ \A m \in 1..(n - 1) : KnownKeys[m] \notin escaped]
         IN IF escaped # {}
            THEN CfgRaise(Coerce(first, generation_config[first]).exc)
            ELSE CfgReturn([k \in kept |-> Clamp(k, Coerce(k, generation_config[k]).val)])

\* a direct call of _sanitize_generation_config
CallSanitize ==
    /\ pc = "start" /\ op = "sanitize"
    /\ cfg' = _sanitize_generation_config(args.generation_config)
    /\ pc' = "done"
    /\ UNCHANGED <<authVars, chains, storyVars, op, settings, args, response, rpVars, engineVars, textVars, result, calls, inflight>>

----------------------------------------------------------------------------
(* Provider envelopes: the parsed JSON body of a 2xx answer *)

NoInline == [present |-> FALSE, mimeType |-> Empty, data |-> Empty]

Part(t) == [text |-> t, inlineData |-> NoInline]

ImagePart(m, d) ==
    [text |-> Empty, inlineData |-> [present |-> TRUE, mimeType |-> m, data |-> d]]

Candidate(ps, ct, t) == [parts |-> ps, ctext |-> ct, text |-> t]

Envelope(cs, pred) == [json |-> TRUE, candidates |-> cs, predictions |-> pred]

\* a body that is not JSON: res.json() raises
NotJson == [json |-> FALSE, candidates |-> <<>>, predictions |-> <<>>]

Bodies ==
    { NotJson,
      Envelope(<<>>, <<>>),
      Envelope(<<Candidate(<<Part(S(" "))>>, Empty, Empty)>>, <<>>),
      Envelope(<<Candidate(<<Part(<<"Once", " ">>), Part(S("upon"))>>, Empty, Empty)>>, <<>>),
      Envelope(<<Candidate(<<>>, S("content"), Empty)>>, <<>>),
      Envelope(<<Candidate(<<ImagePart(S("image/jpeg"), S("QUJD"))>>, Empty, Empty)>>, <<>>),
      Envelope(<<Candidate(<<ImagePart(Empty, Empty)>>, Empty, Empty)>>, <<>>),
      Envelope(<<>>, <<S("QUJD")>>) }

\* "".join(text_bits).strip() over the parts that carry text
RECURSIVE JoinTexts(_)
JoinTexts(ps) ==
    IF ps = <<>> THEN Empty
    ELSE ps[1].text \o JoinTexts(Tail(ps))

_extract_text_from_parts(parts) == StrStrip(JoinTexts(parts))

----------------------------------------------------------------------------
(* URLs, responses, errors and outcomes *)

TextUrl(model) == <<"generateContent">> \o model

PredictUrl(model) == <<"predict">> \o model

NoUrl == <<"none">>

NoRes == [kind |-> "none", status |-> 0, body |-> NotJson]

NetRes == [kind |-> "net", status |-> 0, body |-> NotJson]

HttpRes(s, b) == [kind |-> "http", status |-> s, body |-> b]

Responses ==
    {NetRes} \cup {HttpRes(s, NotJson) : s \in Statuses \ {200}}
             \cup {HttpRes(200, b) : b \in Bodies}

NoErr == [type |-> "none", status |-> 0, model |-> Empty, msg |-> ""]

Err(t, s, m, msg) == [type |-> t, status |-> s, model |-> m, msg |-> msg]

\* isinstance(e, ValueError): json.JSONDecodeError is a ValueError
IsValueError(e) == e.type \in {"ValueError", "JSONDecodeError"}

Pending == [kind |-> "pending", value |-> Empty, body |-> NotJson, err |-> NoErr]

Return(v) == [kind |-> "return", value |-> v, body |-> NotJson, err |-> NoErr]

ReturnBody(b) == [kind |-> "return", value |-> Empty, body |-> b, err |-> NoErr]

ReturnNone == [kind |-> "none", value |-> Empty, body |-> NotJson, err |-> NoErr]

Raise(e) == [kind |-> "raise", value |-> Empty, body |-> NotJson, err |-> e]

\* the name _execute_with_retry logs: the model its url was built from
LogModel == Tail(url)

----------------------------------------------------------------------------
(* The alternate backend (RunPod): constants, JSON bodies, text extraction *)

RUNPOD_RETRYABLE_STATUS_CODES == RETRYABLE_STATUS_CODES \cup {524}

\* times are in microseconds
Second == 1000000

\* sleep_s = 0.5
InitialSleep == 500000

\* min(2.0, ...)
MaxSleep == 2000000

\* sleep_s * 1.3 without the ceiling
NextSleep_NoCeiling(s) == (s * 13) \div 10

\* min(2.0, sleep_s * 1.3)
NextSleep(s) == IF (s * 13) \div 10 > MaxSleep THEN MaxSleep ELSE (s * 13) \div 10

\* settings.runpod_timeout_s, in tenths of a second
RunpodTimeoutTenths == 12

RunpodTimeout == RunpodTimeoutTenths * (Second \div 10)

\* the longest timeout_s, in seconds, of the calls of _poll_status on its own
MaxTimeoutSeconds == 8

\* timeout_s of the calls of _poll_status on its own
LongTimeouts == {k * Second : k \in 1..MaxTimeoutSeconds}

\* timeout_s the callers pass (0 stands for None)
TimeoutArgs == {0, Second}

\* time a status request takes
StatusLatencies == {0, 700000}

\* statuses the alternate backend answers with
RpStatuses == {200, 400, 503, 524}

\* job ids the alternate backend hands out
JobIds == {S("job-1")}

\* a parsed JSON value: null, a string, a list or a dict
JNull == [k |-> "null"]

JStr(s) == [k |-> "str", s |-> s]

JList(items) == [k |-> "list", items |-> items]

JDict(f) == [k |-> "dict", f |-> f]

\* d.get(key)
Get(d, key) == IF key \in DOMAIN d.f THEN d.f[key] ELSE JNull

\* isinstance(x, str) and x.strip()
IsText(x) == x.k = "str" /\ StrStrip(x.s) # Empty

\* isinstance(x, list) and x
IsFilledList(x) == x.k = "list" /\ x.items # << >>

\* str(x), for the items the model puts in lists
StrOf(x) == IF x.k = "str" THEN x.s ELSE S("?")

\* "".join(str(x) for x in items)
RECURSIVE JoinItems(_)
JoinItems(items) ==
    IF items = << >> THEN Empty ELSE StrOf(items[1]) \o JoinItems(Tail(items))

\* the part of _extract_runpod_text for choices[0]; JNull when nothing matches
ExtractFromChoice(c0) ==
    IF IsFilledList(Get(c0, "tokens"))
    THEN JStr(StrStrip(JoinItems(Get(c0, "tokens").items)))
    ELSE IF IsText(Get(c0, "text")) THEN JStr(StrStrip(Get(c0, "text").s))
    ELSE IF IsFilledList(Get(c0, "text"))
    THEN JStr(StrStrip(JoinItems(Get(c0, "text").items)))
    ELSE IF Get(c0, "message").k = "dict" /\ IsText(Get(Get(c0, "message"), "content"))
    THEN JStr(StrStrip(Get(Get(c0, "message"), "content").s))
    ELSE JNull

\* the part of _extract_runpod_text for output[0] a dict; JNull when nothing matches
ExtractFromRecord(first) ==
    LET choices == Get(first, "choices")
        c0 == IF choices.items[1].k = "dict" THEN choices.items[1] ELSE JDict(<< >>)
        fromChoice == IF IsFilledList(choices) THEN ExtractFromChoice(c0) ELSE JNull
    IN IF fromChoice # JNull THEN fromChoice
       ELSE IF IsText(Get(first, "output")) THEN JStr(StrStrip(Get(first, "output").s))
       ELSE IF IsText(Get(first, "text")) THEN JStr(StrStrip(Get(first, "text").s))
       ELSE JNull

\* ExtractFromDict reading only the first item of a list
ExtractFromDict_FirstItemOnly(output) ==
    IF IsFilledList(Get(output, "text"))
    THEN JStr(StrStrip(StrOf(Get(output, "text").items[1])))
    ELSE IF IsText(Get(output, "text")) THEN JStr(StrStrip(Get(output, "text").s))
    ELSE IF IsText(Get(output, "output")) THEN JStr(StrStrip(Get(output, "output").s))
    ELSE IF IsFilledList(Get(output, "output"))
    THEN JStr(StrStrip(StrOf(Get(output, "output").items[1])))
    ELSE JNull

\* the part of _extract_runpod_text for output a dict
ExtractFromDict(output) ==
    IF IsFilledList(Get(output, "text"))
    THEN JStr(StrStrip(JoinItems(Get(output, "text").items)))
    ELSE IF IsText(Get(output, "text")) THEN JStr(StrStrip(Get(output, "text").s))
    ELSE IF IsText(Get(output, "output")) THEN JStr(StrStrip(Get(output, "output").s))
    ELSE IF IsFilledList(Get(output, "output"))
    THEN JStr(StrStrip(JoinItems(Get(output, "output").items)))
    ELSE JNull

\* _extract_runpod_text: the text, or Empty for None and for ""
_extract_runpod_text(data) ==
    IF data.k # "dict" THEN Empty
    ELSE LET output == Get(data, "output")
             fromList ==
                 IF ~IsFilledList(output) THEN JNull
                 ELSE IF IsText(output.items[1]) THEN JStr(StrStrip(output.items[1].s))
                 ELSE IF output.items[1].k = "dict" THEN ExtractFromRecord(output.items[1])
                 ELSE JNull
             fromRest ==
                 IF output.k = "dict" THEN ExtractFromDict(output)
                 ELSE IF IsText(output) THEN JStr(StrStrip(output.s))
                 ELSE JNull
         IN IF fromList # JNull THEN fromList.s
            ELSE IF fromRest # JNull THEN fromRest.s
            ELSE Empty

RpBody(d) == [json |-> TRUE, data |-> d]

RpNotJson == [json |-> FALSE, data |-> JNull]

Completed(output) == RpBody(JDict([status |-> JStr(S("COMPLETED")), output |-> output]))

Queued(id) == RpBody(JDict([id |-> JStr(id), status |-> JStr(S("IN_QUEUE"))]))

\* bodies the alternate backend answers a 2xx with
RpBodies ==
    { RpNotJson,
      Completed(JDict([text |-> JList(<<JStr(S("a")), JStr(S("b"))>>)])),
      Completed(JList(<<JDict([choices |-> JList(<<JDict([tokens |-> JList(<<JStr(S(" ")), JStr(S("c"))>>)])>>)])>>)),
      Completed(JStr(<<"FENCEjson", "[", "tip", "]", "FENCE">>)),
      Completed(JDict(<< >>)),
      RpBody(JDict([status |-> JStr(S("IN_PROGRESS"))])),
      RpBody(JDict([status |-> JStr(S("FAILED"))])) }
    \cup {Queued(id) : id \in JobIds}

NoRpRes == [kind |-> "none", status |-> 0, body |-> RpNotJson]

RpNetRes == [kind |-> "net", status |-> 0, body |-> RpNotJson]

RpHttpRes(st, b) == [kind |-> "http", status |-> st, body |-> b]

RpResponses ==
    {RpNetRes} \cup {RpHttpRes(st, RpNotJson) : st \in RpStatuses \ {200}}
               \cup {RpHttpRes(200, b) : b \in RpBodies}

RunsyncUrl == <<"runsync">>

RunUrl == <<"run">>

StatusUrl(id) == <<"status">> \o id

----------------------------------------------------------------------------
(* Stories: the table, the requests and the four operations of            *)
(* services/story_service.py as the endpoints of main.py answer them      *)

\* users.id of the signed-up users
Users == {1, 2}

\* Story.id, chosen by the client
StoryIds == {S("story123"), S("del123")}

Titles == {Empty, S("My Epic Story"), S("To Delete")}

\* a dict with no key, and the config of the test
EmptyDict == << >>

Configs == {EmptyDict, [prompt |-> "A hero rises"]}

\* the clock stops the model after this many ticks
MaxNow == 3

\* json.dumps of a dict with at most one key
JsonDumps(d) ==
    IF DOMAIN d = {} THEN <<"{", "}">>
    ELSE LET key == CHOOSE key \in DOMAIN d : TRUE
         IN <<"{", key, ":", d[key], "}">>

\* json.loads of what JsonDumps wrote
JsonLoadsDict(s) ==
    IF Len(s) = 5 THEN [key \in {s[2]} |-> s[4]] ELSE EmptyDict

NoRow == [user_id |-> 0]

NoRequest == [id |-> Empty]

NoReply == [op |-> "none", user |-> 0, id |-> Empty, status |-> 0]

\* StoryUpsert, as far as the endpoints read it back
StoryUpserts == [id : StoryIds, title : Titles, config : Configs]

\* get_story_for_user without the filter on the owner
get_story_for_user_AnyOwner(d, story_id, user_id) == d[story_id]

\* select(Story).filter(Story.id == story_id, Story.user_id == user_id).first()
get_story_for_user(d, story_id, user_id) ==
    IF d[story_id] # NoRow /\ d[story_id].user_id = user_id THEN d[story_id] ELSE NoRow

\* upsert_story_for_user that leaves the title of an existing row alone
UpsertedRow_KeepTitle(d, req, user_id, t) ==
    LET s == get_story_for_user(d, req.id, user_id)
    IN [user_id |-> user_id,
        title |-> IF s = NoRow THEN req.title ELSE s.title,
        config_json |-> JsonDumps(req.config),
        created_at |-> IF s = NoRow THEN t ELSE s.created_at,
        updated_at |-> t]

\* the row upsert_story_for_user commits: a new one when the user has none
\* under this id, the updated one otherwise
UpsertedRow(d, req, user_id, t) ==
    LET s == get_story_for_user(d, req.id, user_id)
    IN [user_id |-> user_id,
        title |-> req.title,
        config_json |-> JsonDumps(req.config),
        created_at |-> IF s = NoRow THEN t ELSE s.created_at,
        updated_at |-> t]

\* db.commit() of an added row fails when the primary key is taken: the
\* select saw no row of this user, another user's row holds the id
IntegrityError(d, req, user_id) ==
    get_story_for_user(d, req.id, user_id) = NoRow /\ d[req.id] # NoRow

\* StorySummary of a row
Summary(d, id) ==
    [id |-> id, title |-> d[id].title, createdAt |-> d[id].created_at,
     updatedAt |-> d[id].updated_at]

\* rows in the order of updated_at, latest first
RECURSIVE Ordered(_, _)
Ordered(d, ids) ==
    IF ids = {} THEN << >>
    ELSE LET top == CHOOSE x \in ids : \A y \in ids : d[y].updated_at <= d[x].updated_at
         IN <<Summary(d, top)>> \o Ordered(d, ids \ {top})

\* list_stories_for_user
list_stories_for_user(d, user_id) ==
    Ordered(d, {id \in StoryIds : d[id] # NoRow /\ d[id].user_id = user_id})

\* GET /api/stories/{story_id}
get_story(d, story_id, user_id) ==
    LET s == get_story_for_user(d, story_id, user_id)
    IN IF s = NoRow
       THEN [op |-> "get", user |-> user_id, id |-> story_id, status |-> 404]
       ELSE [op |-> "get", user |-> user_id, id |-> story_id, status |-> 200,
             title |-> s.title, config |-> JsonLoadsDict(s.config_json)]

\* delete_story_for_user: whether a row was deleted
delete_story_for_user(d, story_id, user_id) ==
    get_story_for_user(d, story_id, user_id) # NoRow

----------------------------------------------------------------------------
(* Call chains served concurrently: every chain has its own frame of local *)
(* variables; a step runs one chain from one await to the next             *)

ChainIds == {1, 2}

\* no request accepted yet
NoFrame == [kind |-> "none", pc |-> "none", models |-> << >>, i |-> 0, last_err |-> NoErr,
            attempt |-> 0, sleep_s |-> 0, elapsed |-> 0, result |-> Pending, posts |-> 0]

----------------------------------------------------------------------------
(* Signup: the users table and the requests of POST /api/auth/signup       *)

SignupIds == {1, 2, 3}

\* addresses that passed EmailStr: local part, "@", domain
Emails == {<<local, "@", "example.com">> : local \in {"test", "Test", "TEST", "story"}}

\* passwords that passed SignupRequest: at most 72 bytes, or 72 characters
\* that take more than 72 bytes
Passwords == {"securepassword123", "more than 72 bytes"}

NoToken == [sub |-> Empty]

\* no request accepted yet
NoSignup == [pc |-> "none", email |-> Empty, password |-> "", status |-> 0,
             token |-> NoToken]

\* select(User).filter(User.email == email).first() finds a row
Registered(rows, email) == \E k \in DOMAIN rows : rows[k].email = email

\* the unique index of users.email left out
UniqueViolation_NoIndex(rows, email) == FALSE

\* unique=True on users.email: the INSERT of a second row with this value fails
UniqueViolation(rows, email) == Registered(rows, email)

\* _validate_password and hash_password accept the password
PasswordOk(password) == password # "more than 72 bytes"

\* create_access_token(subject)
create_access_token(subject) == [sub |-> subject]

----------------------------------------------------------------------------
(* Initial states: one call chain, not yet started *)

Ops == {"execute", "text", "image"}

\* the handler has not answered yet
NoResponse == [app |-> "none", endpoint |-> "none", status |-> 0, detail |-> "",
               body |-> "none"]

NoArgs == [max_retries |-> DefaultMaxRetries, text_model |-> Empty,
           text_fallback_model |-> Empty, imagen_model |-> Empty,
           generation_config |-> NoConfig, json_mode |-> FALSE, timeout_s |-> 0]

\* the settings the gateway reads: both API keys set, or one of them missing
SettingsChoices ==
    { [gemini_api_key |-> g, runpod_api_key |-> r,
       gemini_text_model |-> DefaultTextModel,
       gemini_text_fallback_model |-> DefaultFallbackModel,
       imagen_model |-> DefaultImagenModel,
       runpod_timeout_s |-> RunpodTimeout] :
      g \in {Empty, S("key")}, r \in {Empty, S("rp-key")} }

\* every variable but op, settings and args, before the call starts
Idle ==
    /\ pc = "start"
    /\ url = NoUrl
    /\ max_retries = DefaultMaxRetries
    /\ attempt = 0
    /\ res = NoRes
    /\ wait_time = 0
    /\ sleeps = 0
    /\ exec_out = Pending
    /\ att_out = Pending
    /\ models = <<>>
    /\ i = 0
    /\ last_err = NoErr
    /\ result = Pending
    /\ calls = <<>>
    /\ inflight = {}
    /\ cfg = NoCfg
    /\ rp_phase = "none"
    /\ rp_attempt = 0
    /\ rp_res = NoRpRes
    /\ job_id = Empty
    /\ sleep_s = 0
    /\ elapsed = 0
    /\ response = NoResponse
    /\ db = [id \in StoryIds |-> NoRow]
    /\ now = 0
    /\ reply = NoReply
    /\ latest = [u \in Users |-> [id \in StoryIds |-> NoRequest]]
    /\ actors = {}
    /\ chains = [c \in ChainIds |-> NoFrame]
    /\ user_rows = << >>
    /\ signups = [r \in SignupIds |-> NoSignup]

Init ==
    /\ op \in Ops
    /\ settings \in SettingsChoices
    /\ \/ /\ op = "execute"
          /\ settings.gemini_api_key # Empty /\ settings.runpod_api_key # Empty
          /\ \E n \in 0..MaxRetriesArg : args = [NoArgs EXCEPT !.max_retries = n]
       \/ /\ op = "text"
          /\ \E p \in TextModelArgs, f \in FallbackArgs, j \in BOOLEAN, t \in TimeoutArgs :
                /\ args = [NoArgs EXCEPT !.text_model = p, !.text_fallback_model = f,
                                         !.json_mode = j, !.timeout_s = t]
                /\ StrLower(Or(p, settings.gemini_text_model)) = S("xstory")
                      => (f = Empty /\ settings.gemini_api_key # Empty)
                /\ StrLower(Or(p, settings.gemini_text_model)) # S("xstory")
                      => (~j /\ t = 0 /\ settings.runpod_api_key # Empty)
       \/ /\ op = "image"
          /\ settings.runpod_api_key # Empty
          /\ \E m \in ImagenModelArgs : args = [NoArgs EXCEPT !.imagen_model = m]
    /\ Idle

----------------------------------------------------------------------------
(* _execute_with_retry *)

\* entering the function: the loop starts at attempt 0
EnterEngine(u, n) ==
    /\ url' = u
    /\ max_retries' = n
    /\ attempt' = 0
    /\ res' = NoRes
    /\ exec_out' = Pending
    /\ pc' = "loop"
    /\ UNCHANGED <<wait_time, sleeps>>

\* where the function's caller continues
AfterEngine == CASE op = "execute" -> "exec_done"
                 [] op = "text"    -> "text_parse"
                 [] op = "image"   -> "image_parse"

\* a direct call of _execute_with_retry
CallExecute ==
    /\ pc = "start" /\ op = "execute"
    /\ EnterEngine(TextUrl(DefaultTextModel), args.max_retries)
    /\ UNCHANGED <<authVars, chains, storyVars, op, settings, args, response, cfg, rpVars, textVars, result, calls, inflight>>

\* EnginePost that does not await the answer before the next iteration
EnginePost_NoAwait ==
    /\ pc = "loop" /\ attempt < max_retries
    /\ calls' = Append(calls, [url |-> url, code |-> -1])
    /\ inflight' = inflight \cup {url}
    /\ attempt' = attempt + 1
    /\ UNCHANGED <<authVars, chains, storyVars, op, settings, args, response, cfg, rpVars, pc, url, max_retries, res,
                   wait_time, sleeps, exec_out, textVars, result>>

\* for attempt in range(max_retries): client.post(url, ...)
EnginePost ==
    /\ pc = "loop" /\ attempt < max_retries
    /\ calls' = Append(calls, [url |-> url, code |-> -1])
    /\ inflight' = inflight \cup {url}
    /\ pc' = "await"
    /\ UNCHANGED <<authVars, chains, storyVars, op, settings, args, response, cfg, rpVars, engineVars, textVars, result>>

\* the range is exhausted: raise Exception("Max retries exceeded ...")
EngineExhausted ==
    /\ pc = "loop" /\ attempt >= max_retries
    /\ exec_out' = Raise(Err("Exception", 0, LogModel, "Max retries exceeded"))
    /\ pc' = AfterEngine
    /\ UNCHANGED <<authVars, chains, storyVars, op, settings, args, response, cfg, rpVars, url, max_retries, attempt, res, wait_time,
                   sleeps, textVars, result, calls, inflight>>

\* the transport answers the pending POST: a response, or a network error
EngineReceive ==
    /\ pc = "await"
    /\ \E r \in Responses :
          /\ res' = r
          /\ calls' = [calls EXCEPT ![Len(calls)].code = r.status]
    /\ inflight' = inflight \ {url}
    /\ pc' = "classify"
    /\ UNCHANGED <<authVars, chains, storyVars, op, settings, args, response, cfg, rpVars, url, max_retries, attempt, wait_time,
                   sleeps, exec_out, textVars, result>>

\* 2**n
RECURSIVE Pow2(_)
Pow2(n) == IF n <= 0 THEN 1 ELSE 2 * Pow2(n - 1)

\* Classify with the last-attempt test off by one (attempt < max_retries)
Classify_OffByOne(r, att, maxr) ==
    IF r.kind = "net"
    THEN IF att < maxr THEN "retry_jitter" ELSE "raise_net"
    ELSE IF r.status \in RETRYABLE_STATUS_CODES /\ att < maxr
         THEN "retry_jitter"
         ELSE IF r.status < 200 \/ r.status >= 300
              THEN "raise_http"
              ELSE IF r.body.json THEN "return" ELSE "raise_json"

\* Classify with the status test of the retry condition left out
Classify_RetryAnyStatus(r, att, maxr) ==
    IF att < maxr - 1
    THEN "retry_jitter"
    ELSE IF r.kind = "net" THEN "raise_net"
         ELSE IF r.status < 200 \/ r.status >= 300
              THEN "raise_http"
              ELSE IF r.body.json THEN "return" ELSE "raise_json"

\* Classify retrying every status >= 400
Classify_RetryClientErrors(r, att, maxr) ==
    IF r.kind = "net"
    THEN IF att < maxr - 1 THEN "retry_jitter" ELSE "raise_net"
    ELSE IF r.status >= 400 /\ att < maxr - 1
         THEN "retry_jitter"
         ELSE IF r.status < 200 \/ r.status >= 300
              THEN "raise_http"
              ELSE IF r.body.json THEN "return" ELSE "raise_json"

\* Classify raising every network error at once
Classify_NoNetRetry(r, att, maxr) ==
    IF r.kind = "net"
    THEN "raise_net"
    ELSE IF r.status \in RETRYABLE_STATUS_CODES /\ att < maxr - 1
         THEN "retry_jitter"
         ELSE IF r.status < 200 \/ r.status >= 300
              THEN "raise_http"
              ELSE IF r.body.json THEN "return" ELSE "raise_json"

\* Classify posting again when a 2xx body has no candidates
Classify_RetryNoCandidates(r, att, maxr) ==
    IF r.kind = "net"
    THEN IF att < maxr - 1 THEN "retry_jitter" ELSE "raise_net"
    ELSE IF r.status \in RETRYABLE_STATUS_CODES /\ att < maxr - 1
         THEN "retry_jitter"
         ELSE IF r.status < 200 \/ r.status >= 300
              THEN "raise_http"
              ELSE IF ~r.body.json THEN "raise_json"
              ELSE IF r.body.candidates = << >> /\ att < maxr - 1 THEN "retry_jitter"
              ELSE "return"

\* Classify posting again when a 2xx body is not JSON
Classify_RetryNotJson(r, att, maxr) ==
    IF r.kind = "net"
    THEN IF att < maxr - 1 THEN "retry_jitter" ELSE "raise_net"
    ELSE IF r.status \in RETRYABLE_STATUS_CODES /\ att < maxr - 1
         THEN "retry_jitter"
         ELSE IF r.status < 200 \/ r.status >= 300
              THEN "raise_http"
              ELSE IF r.body.json THEN "return"
              ELSE IF att < maxr - 1 THEN "retry_jitter" ELSE "raise_json"

\* Classify that sleeps and goes round again after the last attempt too
Classify_RetryLast(r, att, maxr) ==
    IF r.kind = "net"
    THEN "retry_jitter"
    ELSE IF r.status \in RETRYABLE_STATUS_CODES
         THEN "retry_jitter"
         ELSE IF r.status < 200 \/ r.status >= 300
              THEN "raise_http"
              ELSE IF r.body.json THEN "return" ELSE "raise_json"

\* the engine's decision on res: "retry_jitter", "retry_plain", "raise_http",
\* "raise_net", "raise_json" or "return"
Classify(r, att, maxr) ==
    IF r.kind = "net"
    THEN IF att < maxr - 1 THEN "retry_jitter" ELSE "raise_net"
    ELSE IF r.status \in RETRYABLE_STATUS_CODES /\ att < maxr - 1
         THEN "retry_jitter"
         ELSE IF r.status < 200 \/ r.status >= 300
              THEN IF r.status \in RETRYABLE_STATUS_CODES /\ att < maxr - 1
                   THEN "retry_plain"
                   ELSE "raise_http"
              ELSE IF r.body.json THEN "return" ELSE "raise_json"

\* the body of one loop iteration after client.post: retry, return or raise
EngineHandle ==
    /\ pc = "classify"
    /\ LET d == Classify(res, attempt, max_retries) IN
       \/ /\ d = "retry_jitter"
          /\ \E j \in JitterTenths : wait_time' = Pow2(attempt) * j
          /\ pc' = "sleep"
          /\ UNCHANGED exec_out
       \/ /\ d = "retry_plain"
          /\ wait_time' = Pow2(attempt) * 10
          /\ pc' = "sleep"
          /\ UNCHANGED exec_out
       \/ /\ d = "raise_http"
          /\ exec_out' = Raise(Err("HTTPStatusError", res.status, LogModel, ""))
          /\ pc' = AfterEngine
          /\ UNCHANGED wait_time
       \/ /\ d = "raise_net"
          /\ exec_out' = Raise(Err("RequestError", 0, LogModel, ""))
          /\ pc' = AfterEngine
          /\ UNCHANGED wait_time
       \/ /\ d = "raise_json"
          /\ exec_out' = Raise(Err("JSONDecodeError", 0, LogModel, ""))
          /\ pc' = AfterEngine
          /\ UNCHANGED wait_time
       \/ /\ d = "return"
          /\ exec_out' = ReturnBody(res.body)
          /\ pc' = AfterEngine
          /\ UNCHANGED wait_time
    /\ UNCHANGED <<authVars, chains, storyVars, op, settings, args, response, cfg, rpVars, url, max_retries, attempt, res, sleeps,
                   textVars, result, calls, inflight>>

\* await asyncio.sleep(wait_time); continue
EngineSleep ==
    /\ pc = "sleep"
    /\ sleeps' = sleeps + 1
    /\ attempt' = attempt + 1
    /\ pc' = "loop"
    /\ UNCHANGED <<authVars, chains, storyVars, op, settings, args, response, cfg, rpVars, url, max_retries, res, wait_time,
                   exec_out, textVars, result, calls, inflight>>

\* the direct caller receives what the engine returned or raised
ExecuteDone ==
    /\ pc = "exec_done"
    /\ result' = exec_out
    /\ pc' = "done"
    /\ UNCHANGED <<authVars, chains, storyVars, op, settings, args, response, cfg, rpVars, engineVars, textVars, calls, inflight>>

----------------------------------------------------------------------------
(* gemini_generate_text and _gemini_generate_text_with_model *)

\* Chain that comes back to the primary after the fallback
Chain_PrimaryAgain(primary, fallback) ==
    IF fallback # Empty /\ fallback # primary /\ StrLower(fallback) # S("xstory")
    THEN <<primary, fallback, primary>>
    ELSE <<primary>>

\* Chain without the exclusion of xstory
Chain_AllowXstory(primary, fallback) ==
    IF fallback # Empty /\ fallback # primary
    THEN <<primary, fallback>>
    ELSE <<primary>>

\* the attempt chain: [primary], then the fallback when it is set, differs
\* from the primary and is not xstory
Chain(primary, fallback) ==
    IF fallback # Empty /\ fallback # primary /\ StrLower(fallback) # S("xstory")
    THEN <<primary, fallback>>
    ELSE <<primary>>

Primary == Or(args.text_model, settings.gemini_text_model)

Fallback == StrStrip(Or(args.text_fallback_model, settings.gemini_text_fallback_model))

\* CallText without the routing of xstory to the adapter
CallText_NoRouting ==
    /\ pc = "start" /\ op = "text"
    /\ models' = Chain(Primary, Fallback)
    /\ i' = 1
    /\ pc' = "text_model"
    /\ last_err' = NoErr
    /\ UNCHANGED <<authVars, chains, storyVars, op, settings, args, response, cfg, rpVars, engineVars, att_out, result, calls, inflight>>

\* entry of gemini_generate_text: routing and the attempt chain
CallText ==
    /\ pc = "start" /\ op = "text"
    /\ IF StrLower(Primary) = S("xstory")
       THEN /\ pc' = "runpod"
            /\ UNCHANGED <<models, i>>
       ELSE /\ models' = Chain(Primary, Fallback)
            /\ i' = 1
            /\ pc' = "text_model"
    /\ last_err' = NoErr
    /\ UNCHANGED <<authVars, chains, storyVars, op, settings, args, response, cfg, rpVars, engineVars, att_out, result, calls, inflight>>

\* TextAttempt without the API key check
TextAttempt_NoKeyCheck ==
    /\ pc = "text_model" /\ i <= Len(models)
    /\ LET model == models[i] IN
       IF model \notin TEXT_MODEL_ALLOWLIST
       THEN /\ att_out' = Raise(Err("ValueError", 0, model, "Unsupported text model"))
            /\ pc' = "text_except"
            /\ UNCHANGED engineVars
       ELSE /\ EnterEngine(TextUrl(model), DefaultMaxRetries)
            /\ att_out' = Pending
    /\ UNCHANGED <<authVars, chains, storyVars, op, settings, args, response, cfg, rpVars, models, i, last_err, result, calls, inflight>>

\* _gemini_generate_text_with_model up to its call of _execute_with_retry:
\* the API key check, then _text_url_for_model
TextAttempt ==
    /\ pc = "text_model" /\ i <= Len(models)
    /\ LET model == models[i] IN
       IF settings.gemini_api_key = Empty
       THEN /\ att_out' = Raise(Err("ValueError", 0, model, "API key is not configured"))
            /\ pc' = "text_except"
            /\ UNCHANGED engineVars
       ELSE IF model \notin TEXT_MODEL_ALLOWLIST
       THEN /\ att_out' = Raise(Err("ValueError", 0, model, "Unsupported text model"))
            /\ pc' = "text_except"
            /\ UNCHANGED engineVars
       ELSE /\ EnterEngine(TextUrl(model), DefaultMaxRetries)
            /\ att_out' = Pending
    /\ UNCHANGED <<authVars, chains, storyVars, op, settings, args, response, cfg, rpVars, models, i, last_err, result, calls, inflight>>

\* ExtractText that never looks at content.text
ExtractText_SkipContentText(data) ==
    LET candidate == data.candidates[1]
        t1 == _extract_text_from_parts(candidate.parts)
        t3 == IF t1 = Empty /\ candidate.text # Empty THEN StrStrip(candidate.text) ELSE t1
    IN t3

\* the text of a provider envelope: parts, then content.text, then candidate.text
ExtractText(data) ==
    LET candidate == data.candidates[1]
        t1 == _extract_text_from_parts(candidate.parts)
        t2 == IF t1 = Empty /\ candidate.ctext # Empty THEN StrStrip(candidate.ctext) ELSE t1
        t3 == IF t2 = Empty /\ candidate.text # Empty THEN StrStrip(candidate.text) ELSE t2
    IN t3

\* what _gemini_generate_text_with_model makes of the engine's outcome
ParseText(out, model) ==
    IF out.kind = "raise" THEN out
    ELSE IF Len(out.body.candidates) = 0
    THEN Raise(Err("ValueError", 0, model, "No candidates returned from Gemini"))
    ELSE IF ExtractText(out.body) = Empty
    THEN Raise(Err("ValueError", 0, model, "Empty response from Gemini model"))
    ELSE Return(ExtractText(out.body))

\* _gemini_generate_text_with_model after _execute_with_retry
TextParse ==
    /\ pc = "text_parse"
    /\ att_out' = ParseText(exec_out, models[i])
    /\ pc' = "text_except"
    /\ UNCHANGED <<authVars, chains, storyVars, op, settings, args, response, cfg, rpVars, engineVars, models, i, last_err, result,
                   calls, inflight>>

\* ExceptDecision that lets a network error end the call
ExceptDecision_NetworkEnds(e, idx, n) ==
    IF e.type = "HTTPStatusError"
    THEN IF e.status = 404 /\ idx < n THEN "continue"
         ELSE IF e.status \in RETRYABLE_STATUS_CODES /\ idx < n THEN "continue"
         ELSE "fallthrough"
    ELSE IF IsValueError(e)
    THEN IF idx < n THEN "continue" ELSE "fallthrough"
    ELSE "propagate"

\* ExceptDecision without the fallback on 404
ExceptDecision_No404(e, idx, n) ==
    IF e.type = "HTTPStatusError"
    THEN IF e.status = 404 THEN "propagate"
         ELSE IF e.status \in RETRYABLE_STATUS_CODES /\ idx < n THEN "continue"
         ELSE "fallthrough"
    ELSE IF IsValueError(e)
    THEN IF idx < n THEN "continue" ELSE "fallthrough"
    ELSE IF e.type = "RequestError"
    THEN IF idx < n THEN "continue" ELSE "fallthrough"
    ELSE "propagate"

\* the except clauses of the fallback loop: "continue" (an explicit continue),
\* "fallthrough" (the clause ends and the loop goes on) or "propagate" (no
\* clause catches the error)
ExceptDecision(e, idx, n) ==
    IF e.type = "HTTPStatusError"
    THEN IF e.status = 404 /\ idx < n THEN "continue"
         ELSE IF e.status \in RETRYABLE_STATUS_CODES /\ idx < n THEN "continue"
         ELSE "fallthrough"
    ELSE IF IsValueError(e)
    THEN IF idx < n THEN "continue" ELSE "fallthrough"
    ELSE IF e.type = "RequestError"
    THEN IF idx < n THEN "continue" ELSE "fallthrough"
    ELSE "propagate"

\* TextExcept going on to the next model after a success
TextExcept_ContinueAfterSuccess ==
    /\ pc = "text_except"
    /\ IF att_out.kind = "return"
       THEN /\ result' = att_out
            /\ i' = i + 1
            /\ pc' = IF i < Len(models) THEN "text_model" ELSE "done"
            /\ UNCHANGED last_err
       ELSE IF ExceptDecision(att_out.err, i, Len(models)) = "propagate"
       THEN /\ result' = att_out
            /\ pc' = "done"
            /\ UNCHANGED <<i, last_err>>
       ELSE /\ last_err' = att_out.err
            /\ i' = i + 1
            /\ pc' = "text_model"
            /\ UNCHANGED result
    /\ UNCHANGED <<authVars, chains, storyVars, op, settings, args, response, cfg, rpVars, engineVars, att_out, models, calls, inflight>>

\* TextExcept keeping the first error instead of the last
TextExcept_KeepFirst ==
    /\ pc = "text_except"
    /\ IF att_out.kind = "return"
       THEN /\ result' = att_out
            /\ pc' = "done"
            /\ UNCHANGED <<i, last_err>>
       ELSE /\ last_err' = IF last_err = NoErr THEN att_out.err ELSE last_err
            /\ i' = i + 1
            /\ pc' = "text_model"
            /\ UNCHANGED result
    /\ UNCHANGED <<authVars, chains, storyVars, op, settings, args, response, cfg, rpVars, engineVars, att_out, models, calls, inflight>>

\* one iteration of the fallback loop ends: return the text, or handle the error
TextExcept ==
    /\ pc = "text_except"
    /\ IF att_out.kind = "return"
       THEN /\ result' = att_out
            /\ pc' = "done"
            /\ UNCHANGED <<i, last_err>>
       ELSE IF ExceptDecision(att_out.err, i, Len(models)) = "propagate"
       THEN /\ result' = att_out
            /\ pc' = "done"
            /\ UNCHANGED <<i, last_err>>
       ELSE /\ last_err' = att_out.err
            /\ i' = i + 1
            /\ pc' = "text_model"
            /\ UNCHANGED result
    /\ UNCHANGED <<authVars, chains, storyVars, op, settings, args, response, cfg, rpVars, engineVars, att_out, models, calls, inflight>>

\* the chain is exhausted: raise last_err
TextExhausted ==
    /\ pc = "text_model" /\ i > Len(models)
    /\ result' = IF last_err # NoErr THEN Raise(last_err)
                 ELSE Raise(Err("Exception", 0, Empty, "Gemini text generation failed"))
    /\ pc' = "done"
    /\ UNCHANGED <<authVars, chains, storyVars, op, settings, args, response, cfg, rpVars, engineVars, textVars, calls, inflight>>

----------------------------------------------------------------------------
(* _runpod_generate_text: the adapter of the alternate backend *)

\* float(timeout_s) if timeout_s else float(settings.runpod_timeout_s)
effective_timeout_s ==
    IF args.timeout_s # 0 THEN args.timeout_s ELSE settings.runpod_timeout_s

\* use_runsync = not json_mode, as the try block the adapter starts in
FirstPhase_AlwaysRunsync(json_mode) == "runsync"

\* use_runsync always off
FirstPhase_NeverRunsync(json_mode) == "run"

FirstPhase(json_mode) == IF ~json_mode THEN "runsync" ELSE "run"

\* the /run submission loop retrying on every attempt but the last of three
RetryRun_Twice(r, att) ==
    r.kind = "http" /\ r.status >= 400
        /\ r.status \in RUNPOD_RETRYABLE_STATUS_CODES /\ att < 2

\* the /run submission loop: sleep and submit again
RetryRun(r, att) ==
    r.kind = "http" /\ r.status >= 400
        /\ r.status \in RUNPOD_RETRYABLE_STATUS_CODES /\ att = 0

\* the except clause of the /runsync try block
RunsyncCaught == {"HTTPStatusError", "RequestError", "TimeoutError"}

\* the /runsync try block catching everything
AfterError_CatchAll(phase, e) == IF phase = "runsync" THEN "run" ELSE "raise"

\* where an exception goes: on to the /run block, or out of the adapter
AfterError(phase, e) ==
    IF phase = "runsync" /\ e.type \in RunsyncCaught THEN "run" ELSE "raise"

\* the polling timeout raised as a transport error
PollTimeoutError_AsTransport == Err("RequestError", 0, Empty, "RunPod job timed out")

\* raise TimeoutError("RunPod job timed out")
PollTimeoutError == Err("TimeoutError", 0, Empty, "RunPod job timed out")

\* data.get("id") as a str, Empty when falsy or data is not a dict
IdOf(data) ==
    IF data.k = "dict" /\ Get(data, "id").k = "str" THEN Get(data, "id").s ELSE Empty

\* data.get("status") if isinstance(data, dict) else None
StatusOf(data) ==
    IF data.k = "dict" /\ Get(data, "status").k = "str" THEN Get(data, "status").s
    ELSE Empty

\* an exception e is raised inside the adapter
RpRaise(e) ==
    IF AfterError(rp_phase, e) = "run"
    THEN /\ rp_phase' = "run"
         /\ rp_attempt' = 0
         /\ pc' = "rp_post"
         /\ UNCHANGED result
    ELSE /\ result' = Raise(e)
         /\ pc' = "done"
         /\ UNCHANGED <<rp_phase, rp_attempt>>

\* the adapter returns text
RpReturn(text) ==
    /\ result' = Return(text)
    /\ pc' = "done"
    /\ UNCHANGED <<rp_phase, rp_attempt>>

\* _poll_status is entered: start = time.monotonic(), sleep_s = 0.5
StartPoll(id) ==
    /\ job_id' = id
    /\ sleep_s' = InitialSleep
    /\ elapsed' = 0
    /\ pc' = "poll_check"
    /\ UNCHANGED <<rp_phase, rp_attempt, result>>

\* entry of the adapter: the key check, the sampling parameters, use_runsync
RunpodEnter ==
    /\ pc = "runpod"
    /\ IF settings.runpod_api_key = Empty
       THEN /\ result' = Raise(Err("ValueError", 0, Empty,
                                   "STORYFORGE_RUNPOD_API_KEY is not configured"))
            /\ pc' = "done"
            /\ UNCHANGED <<cfg, rp_phase>>
       ELSE /\ cfg' = _sanitize_generation_config(args.generation_config)
            /\ IF cfg'.kind = "raise"
               THEN /\ result' = Raise(Err(cfg'.exc, 0, Empty, ""))
                    /\ pc' = "done"
                    /\ UNCHANGED rp_phase
               ELSE /\ rp_phase' = FirstPhase(args.json_mode)
                    /\ pc' = "rp_post"
                    /\ UNCHANGED result
    /\ UNCHANGED <<authVars, chains, storyVars, op, settings, args, response, rp_attempt, rp_res, job_id, sleep_s, elapsed,
                   engineVars, textVars, calls, inflight>>

\* client.post(runsync_url, ...) or client.post(run_url, ...)
RunpodPost ==
    /\ pc = "rp_post"
    /\ LET u == IF rp_phase = "runsync" THEN RunsyncUrl ELSE RunUrl IN
          /\ calls' = Append(calls, [url |-> u, code |-> -1])
          /\ inflight' = inflight \cup {u}
    /\ pc' = "rp_await"
    /\ UNCHANGED <<authVars, chains, storyVars, op, settings, args, response, cfg, rpVars, engineVars, textVars, result>>

\* the transport answers the pending submission
RunpodReceive ==
    /\ pc = "rp_await"
    /\ \E r \in RpResponses :
          /\ rp_res' = r
          /\ calls' = [calls EXCEPT ![Len(calls)].code = r.status]
    /\ inflight' = {}
    /\ pc' = "rp_handle"
    /\ UNCHANGED <<authVars, chains, storyVars, op, settings, args, response, cfg, rp_phase, rp_attempt, job_id, sleep_s,
                   elapsed, engineVars, textVars, result>>

\* the /runsync try block after client.post
RunpodHandleRunsync ==
    /\ pc = "rp_handle" /\ rp_phase = "runsync"
    /\ IF rp_res.kind = "net"
       THEN RpRaise(Err("RequestError", 0, Empty, "")) /\ UNCHANGED <<job_id, sleep_s, elapsed>>
       ELSE IF rp_res.status < 200 \/ rp_res.status >= 300
       THEN /\ RpRaise(Err("HTTPStatusError", rp_res.status, Empty, ""))
            /\ UNCHANGED <<job_id, sleep_s, elapsed>>
       ELSE IF ~rp_res.body.json
       THEN /\ RpRaise(Err("JSONDecodeError", 0, Empty, ""))
            /\ UNCHANGED <<job_id, sleep_s, elapsed>>
       ELSE IF _extract_runpod_text(rp_res.body.data) # Empty
       THEN /\ RpReturn(_extract_runpod_text(rp_res.body.data))
            /\ UNCHANGED <<job_id, sleep_s, elapsed>>
       ELSE IF IdOf(rp_res.body.data) # Empty
       THEN StartPoll(IdOf(rp_res.body.data))
       ELSE /\ RpRaise(Err("ValueError", 0, Empty, "Invalid response format from RunPod"))
            /\ UNCHANGED <<job_id, sleep_s, elapsed>>
    /\ UNCHANGED <<authVars, chains, storyVars, op, settings, args, response, cfg, rp_res, engineVars, textVars, calls, inflight>>

\* one iteration of the /run submission loop after client.post, and the
\* job id check that follows the loop
RunpodHandleRun ==
    /\ pc = "rp_handle" /\ rp_phase = "run"
    /\ IF rp_res.kind = "net"
       THEN RpRaise(Err("RequestError", 0, Empty, "")) /\ UNCHANGED <<job_id, sleep_s, elapsed>>
       ELSE IF RetryRun(rp_res, rp_attempt)
       THEN /\ rp_attempt' = rp_attempt + 1
            /\ pc' = "rp_post"
            /\ UNCHANGED <<rp_phase, result, job_id, sleep_s, elapsed>>
       ELSE IF rp_res.status < 200 \/ rp_res.status >= 300
       THEN /\ RpRaise(Err("HTTPStatusError", rp_res.status, Empty, ""))
            /\ UNCHANGED <<job_id, sleep_s, elapsed>>
       ELSE IF ~rp_res.body.json
       THEN /\ RpRaise(Err("JSONDecodeError", 0, Empty, ""))
            /\ UNCHANGED <<job_id, sleep_s, elapsed>>
       ELSE IF IdOf(rp_res.body.data) = Empty
       THEN /\ RpRaise(Err("ValueError", 0, Empty, "RunPod /run did not return a job id"))
            /\ UNCHANGED <<job_id, sleep_s, elapsed>>
       ELSE StartPoll(IdOf(rp_res.body.data))
    /\ UNCHANGED <<authVars, chains, storyVars, op, settings, args, response, cfg, rp_res, engineVars, textVars, calls, inflight>>

\* _poll_status, top of the loop: the timeout check, then client.get(status_url)
PollCheck ==
    /\ pc = "poll_check"
    /\ IF elapsed > effective_timeout_s
       THEN /\ RpRaise(PollTimeoutError)
            /\ UNCHANGED <<calls, inflight>>
       ELSE /\ calls' = Append(calls, [url |-> StatusUrl(job_id), code |-> -1])
            /\ inflight' = inflight \cup {StatusUrl(job_id)}
            /\ pc' = "poll_await"
            /\ UNCHANGED <<rp_phase, rp_attempt, result>>
    /\ UNCHANGED <<authVars, chains, storyVars, op, settings, args, response, cfg, rp_res, job_id, sleep_s, elapsed,
                   engineVars, textVars>>

\* the transport answers the status request, after some time
PollReceive ==
    /\ pc = "poll_await"
    /\ \E r \in RpResponses :
          /\ rp_res' = r
          /\ calls' = [calls EXCEPT ![Len(calls)].code = r.status]
    /\ \E latency \in StatusLatencies : elapsed' = elapsed + latency
    /\ inflight' = {}
    /\ pc' = "poll_handle"
    /\ UNCHANGED <<authVars, chains, storyVars, op, settings, args, response, cfg, rp_phase, rp_attempt, job_id, sleep_s,
                   engineVars, textVars, result>>

\* await asyncio.sleep(sleep_s); sleep_s = min(2.0, sleep_s * 1.3)
PollAgain ==
    /\ elapsed' = elapsed + sleep_s
    /\ sleep_s' = NextSleep(sleep_s)
    /\ pc' = "poll_check"
    /\ UNCHANGED <<rp_phase, rp_attempt, result>>

\* the text of a COMPLETED job, as the block that called _poll_status reads it
PollCompleted(polled) ==
    IF _extract_runpod_text(polled) # Empty
    THEN RpReturn(_extract_runpod_text(polled))
    ELSE IF rp_phase = "runsync"
    THEN RpRaise(Err("ValueError", 0, Empty, "Invalid response format from RunPod"))
    ELSE RpRaise(Err("ValueError", 0, Empty, "Invalid RunPod /status output"))

\* PollHandle raising every status >= 400, the retryable ones included
PollHandle_RaiseRetryable ==
    /\ pc = "poll_handle"
    /\ IF rp_res.kind = "net"
       THEN RpRaise(Err("RequestError", 0, Empty, "")) /\ UNCHANGED <<sleep_s, elapsed>>
       ELSE IF rp_res.status >= 400
       THEN /\ RpRaise(Err("HTTPStatusError", rp_res.status, Empty, ""))
            /\ UNCHANGED <<sleep_s, elapsed>>
       ELSE IF ~rp_res.body.json
       THEN /\ RpRaise(Err("JSONDecodeError", 0, Empty, ""))
            /\ UNCHANGED <<sleep_s, elapsed>>
       ELSE IF StatusOf(rp_res.body.data) = S("COMPLETED")
       THEN PollCompleted(rp_res.body.data) /\ UNCHANGED <<sleep_s, elapsed>>
       ELSE IF StatusOf(rp_res.body.data) = S("FAILED")
       THEN /\ RpRaise(Err("ValueError", 0, Empty, "RunPod job failed"))
            /\ UNCHANGED <<sleep_s, elapsed>>
       ELSE PollAgain
    /\ UNCHANGED <<authVars, chains, storyVars, op, settings, args, response, cfg, rp_res, job_id, engineVars, textVars,
                   calls, inflight>>

\* PollHandle polling on when the job has FAILED
PollHandle_IgnoreFailed ==
    /\ pc = "poll_handle"
    /\ IF rp_res.kind = "net"
       THEN RpRaise(Err("RequestError", 0, Empty, "")) /\ UNCHANGED <<sleep_s, elapsed>>
       ELSE IF rp_res.status >= 400 /\ rp_res.status \in RUNPOD_RETRYABLE_STATUS_CODES
       THEN PollAgain
       ELSE IF rp_res.status >= 400
       THEN /\ RpRaise(Err("HTTPStatusError", rp_res.status, Empty, ""))
            /\ UNCHANGED <<sleep_s, elapsed>>
       ELSE IF ~rp_res.body.json
       THEN /\ RpRaise(Err("JSONDecodeError", 0, Empty, ""))
            /\ UNCHANGED <<sleep_s, elapsed>>
       ELSE IF StatusOf(rp_res.body.data) = S("COMPLETED")
       THEN PollCompleted(rp_res.body.data) /\ UNCHANGED <<sleep_s, elapsed>>
       ELSE PollAgain
    /\ UNCHANGED <<authVars, chains, storyVars, op, settings, args, response, cfg, rp_res, job_id, engineVars, textVars,
                   calls, inflight>>

\* _poll_status after client.get, and its caller when it returns
PollHandle ==
    /\ pc = "poll_handle"
    /\ IF rp_res.kind = "net"
       THEN RpRaise(Err("RequestError", 0, Empty, "")) /\ UNCHANGED <<sleep_s, elapsed>>
       ELSE IF rp_res.status >= 400 /\ rp_res.status \in RUNPOD_RETRYABLE_STATUS_CODES
       THEN PollAgain
       ELSE IF rp_res.status >= 400
       THEN /\ RpRaise(Err("HTTPStatusError", rp_res.status, Empty, ""))
            /\ UNCHANGED <<sleep_s, elapsed>>
       ELSE IF ~rp_res.body.json
       THEN /\ RpRaise(Err("JSONDecodeError", 0, Empty, ""))
            /\ UNCHANGED <<sleep_s, elapsed>>
       ELSE IF StatusOf(rp_res.body.data) = S("COMPLETED")
       THEN PollCompleted(rp_res.body.data) /\ UNCHANGED <<sleep_s, elapsed>>
       ELSE IF StatusOf(rp_res.body.data) = S("FAILED")
       THEN /\ RpRaise(Err("ValueError", 0, Empty, "RunPod job failed"))
            /\ UNCHANGED <<sleep_s, elapsed>>
       ELSE PollAgain
    /\ UNCHANGED <<authVars, chains, storyVars, op, settings, args, response, cfg, rp_res, job_id, engineVars, textVars,
                   calls, inflight>>

----------------------------------------------------------------------------
(* gemini_generate_image *)

SelectedImageModel == StrStrip(Or(args.imagen_model, settings.imagen_model))

_imagen_url(model) ==
    IF ContainsGemini(model) THEN TextUrl(model) ELSE PredictUrl(model)

DataUrl(mime, b64) == <<"data:">> \o mime \o <<";base64,">> \o b64

\* CallImage without the allowlist check
CallImage_NoValidation ==
    /\ pc = "start" /\ op = "image"
    /\ IF settings.gemini_api_key = Empty
       THEN /\ result' = Raise(Err("ValueError", 0, SelectedImageModel, "API key is not configured"))
            /\ pc' = "done"
            /\ UNCHANGED engineVars
       ELSE /\ EnterEngine(_imagen_url(SelectedImageModel), DefaultMaxRetries)
            /\ UNCHANGED result
    /\ UNCHANGED <<authVars, chains, storyVars, op, settings, args, response, cfg, rpVars, textVars, calls, inflight>>

\* entry of gemini_generate_image up to its call of _execute_with_retry
CallImage ==
    /\ pc = "start" /\ op = "image"
    /\ IF SelectedImageModel \notin IMAGE_MODEL_ALLOWLIST
       THEN /\ result' = Raise(Err("ValueError", 0, SelectedImageModel, "Unsupported image model"))
            /\ pc' = "done"
            /\ UNCHANGED engineVars
       ELSE IF settings.gemini_api_key = Empty
       THEN /\ result' = Raise(Err("ValueError", 0, SelectedImageModel, "API key is not configured"))
            /\ pc' = "done"
            /\ UNCHANGED engineVars
       ELSE /\ EnterEngine(_imagen_url(SelectedImageModel), DefaultMaxRetries)
            /\ UNCHANGED result
    /\ UNCHANGED <<authVars, chains, storyVars, op, settings, args, response, cfg, rpVars, textVars, calls, inflight>>

\* the first part bearing inline data with bytes, as a data URL; Empty if none
RECURSIVE FirstInline(_)
FirstInline(parts) ==
    IF parts = <<>> THEN Empty
    ELSE IF parts[1].inlineData.present /\ parts[1].inlineData.data # Empty
    THEN DataUrl(Or(parts[1].inlineData.mimeType, S("image/png")), parts[1].inlineData.data)
    ELSE FirstInline(Tail(parts))

\* ParseImage letting the engine's error through
ParseImage_Propagates(out, is_gemini_model) ==
    IF out.kind = "raise" THEN out
    ELSE IF is_gemini_model
    THEN IF Len(out.body.candidates) = 0 THEN ReturnNone
         ELSE IF FirstInline(out.body.candidates[1].parts) = Empty THEN ReturnNone
         ELSE Return(FirstInline(out.body.candidates[1].parts))
    ELSE IF Len(out.body.predictions) = 0 \/ out.body.predictions[1] = Empty
    THEN ReturnNone
    ELSE Return(DataUrl(S("image/png"), out.body.predictions[1]))

\* what gemini_generate_image makes of the engine's outcome, inside its try
ParseImage(out, is_gemini_model) ==
    IF out.kind = "raise" THEN ReturnNone
    ELSE IF is_gemini_model
    THEN IF Len(out.body.candidates) = 0 THEN ReturnNone
         ELSE IF FirstInline(out.body.candidates[1].parts) = Empty THEN ReturnNone
         ELSE Return(FirstInline(out.body.candidates[1].parts))
    ELSE IF Len(out.body.predictions) = 0 \/ out.body.predictions[1] = Empty
    THEN ReturnNone
    ELSE Return(DataUrl(S("image/png"), out.body.predictions[1]))

\* gemini_generate_image after _execute_with_retry
ImageParse ==
    /\ pc = "image_parse"
    /\ result' = ParseImage(exec_out, ContainsGemini(SelectedImageModel))
    /\ pc' = "done"
    /\ UNCHANGED <<authVars, chains, storyVars, op, settings, args, response, cfg, rpVars, engineVars, textVars, calls, inflight>>

----------------------------------------------------------------------------
(* The /api/ai endpoints: the handlers of main.py and of routers/ai.py *)

\* the two modules that define the handlers
Apps == {"main", "router"}

TextEndpoints == {"text", "chapter", "analyze_blueprint", "sequel"}

GenericDetail == "AI provider request failed"

NoImageDetail == "AI provider returned no image"

\* the tokens that stand for the markdown fences ```json and ```
IsFence(t) == t \in {"FENCEjson", "FENCE"}

\* str.find: the first position of token t, 0 when absent (Python's -1)
Find(s, t) ==
    IF \E k \in DOMAIN s : s[k] = t
    THEN CHOOSE k \in DOMAIN s : s[k] = t /\ \A m \in 1..(k - 1) : s[m] # t
    ELSE 0

\* str.rfind: the last position of token t, 0 when absent
RFind(s, t) ==
    IF \E k \in DOMAIN s : s[k] = t
    THEN CHOOSE k \in DOMAIN s : s[k] = t /\ \A m \in (k + 1)..Len(s) : s[m] # t
    ELSE 0

\* _extract_json: drop the fences, keep from the first bracket to the last
\* matching closing bracket
_extract_json(text) ==
    LET clean == SelectSeq(text, LAMBDA t : ~IsFence(t))
        first_obj == Find(clean, "{")
        first_arr == Find(clean, "[")
        arr == first_obj = 0 \/ (first_arr # 0 /\ first_arr < first_obj)
        first == IF arr THEN first_arr ELSE first_obj
        last == IF arr THEN RFind(clean, "]") ELSE RFind(clean, "}")
    IN IF first_obj = 0 /\ first_arr = 0 THEN clean
       ELSE IF last # 0 /\ last >= first THEN SubSeq(clean, first, last)
       ELSE clean

\* json.loads: "list_str" for a list of strings, "dict" for an object,
\* "invalid" when it raises JSONDecodeError; a token that is no bracket
\* stands for a quoted string inside brackets and for bare prose outside
JsonLoads(s) ==
    IF Len(s) >= 2 /\ s[1] = "[" /\ s[Len(s)] = "]"
          /\ \A k \in 2..(Len(s) - 1) : s[k] \notin {"[", "]", "{", "}"}
    THEN "list_str"
    ELSE IF Len(s) >= 2 /\ s[1] = "{" /\ s[Len(s)] = "}"
               /\ \A k \in 2..(Len(s) - 1) : s[k] \notin {"[", "]", "{", "}"}
    THEN "dict"
    ELSE "invalid"

\* the exception types that are instances of ValueError: json.JSONDecodeError
\* and pydantic's ValidationError derive from it
ValueErrorTypes == {"ValueError", "JSONDecodeError", "ValidationError"}

\* str(e)
StrErr(e) ==
    CASE e.msg # "" -> e.msg
      [] e.type = "JSONDecodeError" -> "Expecting value: line 1 column 1 (char 0)"
      [] e.type = "ValidationError" -> "1 validation error for AiSequelResponse"
      [] OTHER -> ""

\* what _safe_error_detail makes of an error response: "" when the body has
\* no error object
SafeDetails == {"", "code=400 status=INVALID_ARGUMENT"}

\* the detail of the HTTPException raised by the except clause of a handler
ErrorDetail(app, e, d) ==
    IF app = "main" THEN GenericDetail
    ELSE IF e.type \in ValueErrorTypes THEN StrErr(e)
    ELSE IF e.type = "HTTPStatusError" /\ d # "" THEN "Provider Error: code=400 status=INVALID_ARGUMENT"
    ELSE GenericDetail

\* raise HTTPException(status_code=502, detail=detail)
Failed(app, ep, e, d) ==
    [app |-> app, endpoint |-> ep, status |-> 502, detail |-> ErrorDetail(app, e, d),
     body |-> "none"]

Answered(app, ep, b) ==
    [app |-> app, endpoint |-> ep, status |-> 200, detail |-> "", body |-> b]

\* ai_text, ai_chapter, ai_analyze_blueprint and ai_sequel after their call of
\* gemini_generate_text
TextHandler(app, ep, out, d) ==
    IF out.kind = "raise" THEN Failed(app, ep, out.err, d)
    ELSE IF ep \in {"text", "chapter"} THEN Answered(app, ep, "text")
    ELSE IF JsonLoads(_extract_json(out.value)) = "invalid"
    THEN Failed(app, ep, Err("JSONDecodeError", 0, Empty, ""), d)
    ELSE IF ep = "analyze_blueprint"
    THEN IF JsonLoads(_extract_json(out.value)) # "list_str"
         THEN Failed(app, ep, Err("ValueError", 0, Empty,
                                  "AI returned invalid suggestion format"), d)
         ELSE Answered(app, ep, "suggestions")
    ELSE IF JsonLoads(_extract_json(out.value)) # "dict"
         THEN Failed(app, ep, Err("ValidationError", 0, Empty, ""), d)
         ELSE Answered(app, ep, "blueprint")

\* ai_imagen after its call of gemini_generate_image: the HTTPException it
\* raises for a missing image is caught by its own except clause
ImagenHandler(app, out) ==
    IF out.kind = "raise" THEN Failed(app, "imagen", out.err, "")
    ELSE IF out.kind = "none"
    THEN Failed(app, "imagen", Err("HTTPException", 502, Empty, NoImageDetail), "")
    ELSE Answered(app, "imagen", "dataUrl")

\* the handlers that can have made this call of the gateway
EndpointsFor ==
    IF op = "image" THEN {"imagen"}
    ELSE IF args.json_mode THEN {"text", "analyze_blueprint", "sequel"}
    ELSE {"text", "chapter"}

\* the handler answers the end user
Respond ==
    /\ pc = "done" /\ op \in {"text", "image"} /\ response = NoResponse
    /\ \E app \in Apps, ep \in EndpointsFor, d \in SafeDetails :
          response' = IF op = "image" THEN ImagenHandler(app, result)
                      ELSE TextHandler(app, ep, result, d)
    /\ UNCHANGED <<authVars, chains, storyVars, op, settings, args, pc, cfg, rpVars, engineVars, textVars, result,
                   calls, inflight>>

\* ai_chapter with a chapterIndex beyond the blueprint's chapters
ChapterInvalidIndex ==
    /\ pc = "start" /\ op = "chapter"
    /\ \E app \in Apps :
          response' = [app |-> app, endpoint |-> "chapter", status |-> 422,
                       detail |-> "Invalid chapter index", body |-> "none"]
    /\ pc' = "done"
    /\ UNCHANGED <<authVars, chains, storyVars, op, settings, args, cfg, rpVars, engineVars, textVars, result,
                   calls, inflight>>

----------------------------------------------------------------------------

Next ==
    \/ CallExecute
    \/ EnginePost
    \/ EngineExhausted
    \/ EngineReceive
    \/ EngineHandle
    \/ EngineSleep
    \/ ExecuteDone
    \/ CallText
    \/ TextAttempt
    \/ TextParse
    \/ TextExcept
    \/ TextExhausted
    \/ CallImage
    \/ ImageParse
    \/ RunpodEnter
    \/ RunpodPost
    \/ RunpodReceive
    \/ RunpodHandleRunsync
    \/ RunpodHandleRun
    \/ PollCheck
    \/ PollReceive
    \/ PollHandle

Spec == Init /\ [][Next]_vars

\* ai_chapter called with a chapterIndex beyond the blueprint's chapters
InitChapter ==
    /\ op = "chapter"
    /\ settings \in SettingsChoices
    /\ settings.gemini_api_key # Empty /\ settings.runpod_api_key # Empty
    /\ args = NoArgs
    /\ Idle

\* the gateway called through the /api/ai handlers
InitEndpoints == Init \/ InitChapter

NextEndpoints ==
    \/ Next
    \/ Respond
    \/ ChapterInvalidIndex

SpecEndpoints == InitEndpoints /\ [][NextEndpoints]_vars

\* _sanitize_generation_config called on its own, over the bounded inputs
InitSanitize ==
    /\ op = "sanitize"
    /\ settings \in SettingsChoices
    /\ settings.gemini_api_key # Empty /\ settings.runpod_api_key # Empty
    /\ \E gc \in GenerationConfigs : args = [NoArgs EXCEPT !.generation_config = gc]
    /\ Idle

NextSanitize == CallSanitize

SpecSanitize == InitSanitize /\ [][NextSanitize]_vars

\* POST /api/stories
UpsertStory ==
    /\ op = "stories" /\ now < MaxNow
    /\ \E user_id \in Users, req \in StoryUpserts :
          /\ now' = now + 1
          /\ IF IntegrityError(db, req, user_id)
             THEN /\ reply' = [op |-> "upsert", user |-> user_id, id |-> req.id,
                               status |-> 500]
                  /\ UNCHANGED db
             ELSE /\ db' = [db EXCEPT ![req.id] = UpsertedRow(db, req, user_id, now')]
                  /\ reply' = [op |-> "upsert", user |-> user_id, id |-> req.id,
                               status |-> 200, title |-> req.title]
          /\ latest' = [latest EXCEPT ![user_id][req.id] = req]
          /\ actors' = actors \cup {user_id}
    /\ UNCHANGED <<authVars, chains, op, settings, args, pc, cfg, rpVars, engineVars, textVars, result,
                   calls, inflight, response>>

\* GET /api/stories/{story_id}
GetStory ==
    /\ op = "stories"
    /\ \E user_id \in Users, story_id \in StoryIds :
          /\ reply' = get_story(db, story_id, user_id)
          /\ actors' = actors \cup {user_id}
    /\ UNCHANGED <<db, now, latest>>
    /\ UNCHANGED <<authVars, chains, op, settings, args, pc, cfg, rpVars, engineVars, textVars, result,
                   calls, inflight, response>>

\* GET /api/stories
ListStories ==
    /\ op = "stories"
    /\ \E user_id \in Users :
          /\ reply' = [op |-> "list", user |-> user_id, id |-> Empty, status |-> 200,
                       items |-> list_stories_for_user(db, user_id)]
          /\ actors' = actors \cup {user_id}
    /\ UNCHANGED <<db, now, latest>>
    /\ UNCHANGED <<authVars, chains, op, settings, args, pc, cfg, rpVars, engineVars, textVars, result,
                   calls, inflight, response>>

\* DELETE /api/stories/{story_id}
DeleteStory ==
    /\ op = "stories"
    /\ \E user_id \in Users, story_id \in StoryIds :
          /\ IF delete_story_for_user(db, story_id, user_id)
             THEN /\ db' = [db EXCEPT ![story_id] = NoRow]
                  /\ reply' = [op |-> "delete", user |-> user_id, id |-> story_id,
                               status |-> 200]
             ELSE /\ UNCHANGED db
                  /\ reply' = [op |-> "delete", user |-> user_id, id |-> story_id,
                               status |-> 404]
          /\ latest' = [latest EXCEPT ![user_id][story_id] = NoRequest]
          /\ actors' = actors \cup {user_id}
    /\ UNCHANGED now
    /\ UNCHANGED <<authVars, chains, op, settings, args, pc, cfg, rpVars, engineVars, textVars, result,
                   calls, inflight, response>>

\* the story endpoints called in any order by the signed-up users
InitStories ==
    /\ op = "stories"
    /\ settings \in SettingsChoices
    /\ settings.gemini_api_key # Empty /\ settings.runpod_api_key # Empty
    /\ args = NoArgs
    /\ Idle

NextStories ==
    \/ UpsertStory
    \/ GetStory
    \/ ListStories
    \/ DeleteStory

SpecStories == InitStories /\ [][NextStories]_vars

\* a call of gemini_generate_text that is routed to the adapter, with both
\* API keys configured and no fallback passed
InitPoll ==
    /\ Init
    /\ op = "text" /\ args.text_model = S("xstory") /\ args.text_fallback_model = Empty
    /\ settings.gemini_api_key # Empty /\ settings.runpod_api_key # Empty

NextPoll ==
    \/ CallText
    \/ RunpodEnter
    \/ RunpodPost
    \/ RunpodReceive
    \/ RunpodHandleRunsync
    \/ RunpodHandleRun
    \/ PollCheck
    \/ PollReceive
    \/ PollHandle

\* the adapter under the event loop: the coroutine is resumed whenever the
\* request or the sleep it awaits is over, and every request is answered
SpecPoll == InitPoll /\ [][NextPoll]_vars /\ WF_vars(NextPoll)

\* _poll_status is called with a job id
PollEnter ==
    /\ pc = "start" /\ op = "poll"
    /\ StartPoll(S("job-1"))
    /\ UNCHANGED <<authVars, chains, storyVars, op, settings, args, response, cfg, rp_res, engineVars, textVars,
                   calls, inflight>>

\* _poll_status, top of the loop, the transport log left aside: the timeout
\* check, then client.get(status_url) and its answer after some time
PollRound ==
    /\ pc = "poll_check" /\ op = "poll"
    /\ IF elapsed > effective_timeout_s
       THEN /\ RpRaise(PollTimeoutError)
            /\ UNCHANGED <<rp_res, elapsed>>
       ELSE /\ \E r \in RpResponses : rp_res' = r
            /\ \E latency \in StatusLatencies : elapsed' = elapsed + latency
            /\ pc' = "poll_handle"
            /\ UNCHANGED <<rp_phase, rp_attempt, result>>
    /\ UNCHANGED <<authVars, chains, storyVars, op, settings, args, response, cfg, job_id, sleep_s, engineVars,
                   textVars, calls, inflight>>

\* _poll_status called on its own, with timeouts long enough for the sleep to
\* reach its ceiling
InitPollLoop ==
    /\ op = "poll"
    /\ settings \in SettingsChoices
    /\ settings.gemini_api_key # Empty /\ settings.runpod_api_key # Empty
    /\ \E t \in LongTimeouts : args = [NoArgs EXCEPT !.timeout_s = t]
    /\ Idle

NextPollLoop ==
    \/ PollEnter
    \/ PollRound
    \/ PollHandle

SpecPollLoop == InitPollLoop /\ [][NextPollLoop]_vars

\* the most parts a candidate of the envelopes below carries
MaxParts == 2

\* the "text" of a part: absent, blank, or text with and without padding
PartTexts == {Empty, S(" "), S("a"), <<" ", "b">>}

PartLists == UNION {[1..n -> {Part(t) : t \in PartTexts}] : n \in 0..MaxParts}

\* first candidates: parts, content.text and candidate.text in every mix
FirstCandidates ==
    {Candidate(ps, ct, t) : ps \in PartLists, ct \in {Empty, S(" "), S("c")},
                            t \in {Empty, <<"t", " ">>}}

\* envelopes with no candidate, one candidate, or a second one that has text
Envelopes ==
    {Envelope(<<>>, <<>>)}
        \cup {Envelope(<<c>>, <<>>) : c \in FirstCandidates}
        \cup {Envelope(<<c, Candidate(<<Part(S("second"))>>, Empty, Empty)>>, <<>>) :
                 c \in FirstCandidates}

\* _execute_with_retry hands a parsed 2xx body to _gemini_generate_text_with_model
ExtractGiven ==
    /\ pc = "start" /\ op = "extract"
    /\ \E b \in Envelopes : exec_out' = ReturnBody(b)
    /\ pc' = "text_parse"
    /\ UNCHANGED <<authVars, chains, storyVars, op, settings, args, response, cfg, rpVars, url, max_retries, attempt,
                   res, wait_time, sleeps, textVars, result, calls, inflight>>

\* _gemini_generate_text_with_model processes the response
ExtractParse ==
    /\ pc = "text_parse" /\ op = "extract"
    /\ att_out' = ParseText(exec_out, DefaultTextModel)
    /\ pc' = "done"
    /\ UNCHANGED <<authVars, chains, storyVars, op, settings, args, response, cfg, rpVars, engineVars, models, i,
                   last_err, result, calls, inflight>>

\* the response processing of _gemini_generate_text_with_model on its own
InitExtract ==
    /\ op = "extract"
    /\ settings \in SettingsChoices
    /\ settings.gemini_api_key # Empty /\ settings.runpod_api_key # Empty
    /\ args = NoArgs
    /\ Idle

NextExtract ==
    \/ ExtractGiven
    \/ ExtractParse

SpecExtract == InitExtract /\ [][NextExtract]_vars

\* cfg of _gemini_generate_text_with_model before the update
DefaultGenerationConfig ==
    [temperature |-> Val("float", 85), maxOutputTokens |-> Val("int", 16384),
     topK |-> Val("int", 64), topP |-> Val("float", 95)]

\* the value of responseMimeType in JSON mode
JsonMime == Val("application/json", 0)

\* the update applied the wrong way round: the defaults overwrite the caller
GenerationConfigOf_DefaultsWin(sanitized, json_mode) ==
    LET keys == DOMAIN DefaultGenerationConfig \cup DOMAIN sanitized
                    \cup (IF json_mode THEN {"responseMimeType"} ELSE {})
    IN [k \in keys |->
            IF k = "responseMimeType" THEN JsonMime
            ELSE IF k \in DOMAIN DefaultGenerationConfig THEN DefaultGenerationConfig[k]
            ELSE sanitized[k]]

\* cfg.update(sanitized); if json_mode: cfg["responseMimeType"] = "application/json"
GenerationConfigOf(sanitized, json_mode) ==
    LET keys == DOMAIN DefaultGenerationConfig \cup DOMAIN sanitized
                    \cup (IF json_mode THEN {"responseMimeType"} ELSE {})
    IN [k \in keys |->
            IF k = "responseMimeType" THEN JsonMime
            ELSE IF k \in DOMAIN sanitized THEN sanitized[k]
            ELSE DefaultGenerationConfig[k]]

\* _gemini_generate_text_with_model up to its call of _execute_with_retry, with
\* the generationConfig of the payload kept in cfg
PayloadBuild ==
    /\ pc = "start" /\ op = "payload"
    /\ LET sanitized == _sanitize_generation_config(args.generation_config) IN
       IF sanitized.kind = "raise"
       THEN /\ cfg' = sanitized
            /\ result' = Raise(Err(sanitized.exc, 0, DefaultTextModel, ""))
            /\ pc' = "done"
            /\ UNCHANGED engineVars
       ELSE /\ cfg' = CfgReturn(GenerationConfigOf(sanitized.dict, args.json_mode))
            /\ IF settings.gemini_api_key = Empty
               THEN /\ result' = Raise(Err("ValueError", 0, DefaultTextModel,
                                           "API key is not configured"))
                    /\ pc' = "done"
                    /\ UNCHANGED engineVars
               ELSE /\ EnterEngine(TextUrl(DefaultTextModel), DefaultMaxRetries)
                    /\ UNCHANGED result
    /\ UNCHANGED <<authVars, chains, storyVars, op, settings, args, response, rpVars, textVars, calls, inflight>>

\* one call of _gemini_generate_text_with_model, followed up to its first POST
InitPayload ==
    /\ op = "payload"
    /\ settings \in SettingsChoices
    /\ settings.runpod_api_key # Empty
    /\ \E gc \in GenerationConfigs, j \in BOOLEAN :
          args = [NoArgs EXCEPT !.generation_config = gc, !.json_mode = j]
    /\ Idle

NextPayload ==
    \/ PayloadBuild
    \/ EnginePost

SpecPayload == InitPayload /\ [][NextPayload]_vars

\* fallbacks passed with the default primary: a different model, or the same
ChainFallbacks == {DefaultFallbackModel, DefaultTextModel}

\* what the provider answers a chain of gemini_generate_text with
ChainResponses ==
    {NetRes, HttpRes(503, NotJson), HttpRes(400, NotJson), HttpRes(200, Envelope(<<>>, <<>>)),
     HttpRes(200, Envelope(<<Candidate(<<Part(S("upon"))>>, Empty, Empty)>>, <<>>))}

\* what the alternate backend answers a status request of a chain with
ChainPollResponses ==
    {RpNetRes, RpHttpRes(524, RpNotJson), RpHttpRes(400, RpNotJson),
     RpHttpRes(200, RpBody(JDict([status |-> JStr(S("IN_PROGRESS"))]))),
     RpHttpRes(200, Completed(JDict([text |-> JList(<<JStr(S("a")), JStr(S("b"))>>)])))}

\* gemini_generate_text from its entry to the await of its first POST, both
\* models allowlisted and the API key set
TextStarted(fallback) ==
    [NoFrame EXCEPT !.kind = "text", !.pc = "await",
                    !.models = Chain(DefaultTextModel, fallback), !.i = 1, !.posts = 1]

\* _poll_status from its entry to the await of its first status request
PollStarted ==
    [NoFrame EXCEPT !.kind = "poll", !.pc = "await", !.sleep_s = InitialSleep, !.posts = 1]

\* the frame ends with an outcome
Ended(f, out) == [f EXCEPT !.pc = "done", !.result = out]

\* what _execute_with_retry hands to its caller when it does not retry
EngineOutcome(d, r, model) ==
    CASE d = "raise_http" -> Raise(Err("HTTPStatusError", r.status, model, ""))
      [] d = "raise_net"  -> Raise(Err("RequestError", 0, model, ""))
      [] d = "raise_json" -> Raise(Err("JSONDecodeError", 0, model, ""))
      [] OTHER            -> ReturnBody(r.body)

\* chain c of gemini_generate_text is resumed with the answer r to its POST and
\* runs to its next await: the backoff sleep, the POST to the next model, or
\* the end of the call
TextResume(w, c, r) ==
    LET f == w[c]
        model == f.models[f.i]
        d == Classify(r, f.attempt, DefaultMaxRetries)
        att == ParseText(EngineOutcome(d, r, model), model)
    IN IF d \in {"retry_jitter", "retry_plain"} THEN [f EXCEPT !.pc = "sleep"]
       ELSE IF att.kind = "return" THEN Ended(f, att)
       ELSE IF ExceptDecision(att.err, f.i, Len(f.models)) = "propagate" THEN Ended(f, att)
       ELSE IF f.i < Len(f.models)
       THEN [f EXCEPT !.last_err = att.err, !.i = f.i + 1, !.attempt = 0, !.pc = "await",
                      !.posts = f.posts + 1]
       ELSE Ended([f EXCEPT !.last_err = att.err, !.i = f.i + 1], Raise(att.err))

\* TextWake with an attempt counter that all chains share
TextWake_SharedAttempt(w, c) ==
    LET top == CHOOSE a \in {w[x].attempt : x \in DOMAIN w} :
                   \A x \in DOMAIN w : w[x].attempt <= a
    IN [w[c] EXCEPT !.attempt = top + 1, !.pc = "await", !.posts = w[c].posts + 1]

\* the backoff sleep of chain c is over: the next iteration of the retry loop
\* issues its POST
TextWake(w, c) ==
    [w[c] EXCEPT !.attempt = w[c].attempt + 1, !.pc = "await", !.posts = w[c].posts + 1]

\* chain c of _poll_status is resumed with the answer r to its status request
PollResume(w, c, r) ==
    LET f == w[c] IN
    IF r.kind = "net" THEN Ended(f, Raise(Err("RequestError", 0, Empty, "")))
    ELSE IF r.status >= 400 /\ r.status \in RUNPOD_RETRYABLE_STATUS_CODES
    THEN [f EXCEPT !.pc = "sleep"]
    ELSE IF r.status >= 400 THEN Ended(f, Raise(Err("HTTPStatusError", r.status, Empty, "")))
    ELSE IF ~r.body.json THEN Ended(f, Raise(Err("JSONDecodeError", 0, Empty, "")))
    ELSE IF StatusOf(r.body.data) = S("COMPLETED")
    THEN IF _extract_runpod_text(r.body.data) # Empty
         THEN Ended(f, Return(_extract_runpod_text(r.body.data)))
         ELSE Ended(f, Raise(Err("ValueError", 0, Empty, "Invalid RunPod /status output")))
    ELSE IF StatusOf(r.body.data) = S("FAILED")
    THEN Ended(f, Raise(Err("ValueError", 0, Empty, "RunPod job failed")))
    ELSE [f EXCEPT !.pc = "sleep"]

\* the sleep of chain c of _poll_status is over: the interval grows, and the
\* top of the loop raises the timeout or issues the next status request
PollWake(w, c) ==
    LET f == [w[c] EXCEPT !.elapsed = w[c].elapsed + w[c].sleep_s,
                          !.sleep_s = NextSleep(w[c].sleep_s)]
    IN IF f.elapsed > RunpodTimeout THEN Ended(f, Raise(PollTimeoutError))
       ELSE [f EXCEPT !.pc = "await", !.posts = f.posts + 1]

Resume(w, c, r) == IF w[c].kind = "text" THEN TextResume(w, c, r) ELSE PollResume(w, c, r)

Wake(w, c) == IF w[c].kind = "text" THEN TextWake(w, c) ELSE PollWake(w, c)

ResponsesFor(f) == IF f.kind = "text" THEN ChainResponses ELSE ChainPollResponses

StartedFrames == {TextStarted(fb) : fb \in ChainFallbacks} \cup {PollStarted}

\* the framework accepts a request and runs its chain to the first await
ChainAccept(c) ==
    /\ op = "chains" /\ chains[c] = NoFrame
    /\ \E f \in StartedFrames : chains' = [chains EXCEPT ![c] = f]
    /\ UNCHANGED <<authVars, storyVars, op, settings, args, response, pc, cfg, rpVars, engineVars,
                   textVars, result, calls, inflight>>

\* the request chain c awaits is answered
ChainResume(c) ==
    /\ op = "chains" /\ chains[c].pc = "await"
    /\ \E r \in ResponsesFor(chains[c]) : chains' = [chains EXCEPT ![c] = Resume(chains, c, r)]
    /\ UNCHANGED <<authVars, storyVars, op, settings, args, response, pc, cfg, rpVars, engineVars,
                   textVars, result, calls, inflight>>

\* the sleep chain c awaits is over
ChainWake(c) ==
    /\ op = "chains" /\ chains[c].pc = "sleep"
    /\ chains' = [chains EXCEPT ![c] = Wake(chains, c)]
    /\ UNCHANGED <<authVars, storyVars, op, settings, args, response, pc, cfg, rpVars, engineVars,
                   textVars, result, calls, inflight>>

\* two requests served concurrently by the event loop
InitChains ==
    /\ op = "chains"
    /\ settings \in SettingsChoices
    /\ settings.gemini_api_key # Empty /\ settings.runpod_api_key # Empty
    /\ args = NoArgs
    /\ Idle

NextChains ==
    \/ \E c \in ChainIds : ChainAccept(c)
    \/ \E c \in ChainIds : ChainResume(c)
    \/ \E c \in ChainIds : ChainWake(c)

SpecChains == InitChains /\ [][NextChains]_vars

\* the request ends with an HTTP error, or with a token
SignupEnds(f, status, token) == [f EXCEPT !.pc = "done", !.status = status, !.token = token]

\* the body is validated and signup is called
SignupAccept(r) ==
    /\ op = "signup" /\ signups[r] = NoSignup
    /\ \E e \in Emails, p \in Passwords :
          signups' = [signups EXCEPT ![r] = [NoSignup EXCEPT !.pc = "select", !.email = e,
                                                             !.password = p]]
    /\ UNCHANGED <<user_rows, chains, storyVars, op, settings, args, response, pc, cfg, rpVars,
                   engineVars, textVars, result, calls, inflight>>

\* signup from the select to the await of db.commit(): 400 when the address is
\* registered, 422 when the password is too long
SignupSelect(r) ==
    /\ op = "signup" /\ signups[r].pc = "select"
    /\ signups' = [signups EXCEPT ![r] =
          IF Registered(user_rows, StrLower(signups[r].email)) THEN SignupEnds(@, 400, NoToken)
          ELSE IF ~PasswordOk(signups[r].password) THEN SignupEnds(@, 422, NoToken)
          ELSE [@ EXCEPT !.pc = "commit"]]
    /\ UNCHANGED <<user_rows, chains, storyVars, op, settings, args, response, pc, cfg, rpVars,
                   engineVars, textVars, result, calls, inflight>>

\* db.commit(): the row is inserted, or the unique index rejects it and the
\* IntegrityError leaves the handler (500)
SignupCommit(r) ==
    /\ op = "signup" /\ signups[r].pc = "commit"
    /\ IF UniqueViolation(user_rows, StrLower(signups[r].email))
       THEN /\ signups' = [signups EXCEPT ![r] = SignupEnds(@, 500, NoToken)]
            /\ UNCHANGED user_rows
       ELSE /\ user_rows' = Append(user_rows, [email |-> StrLower(signups[r].email),
                                               request |-> r])
            /\ signups' = [signups EXCEPT ![r].pc = "refresh"]
    /\ UNCHANGED <<chains, storyVars, op, settings, args, response, pc, cfg, rpVars,
                   engineVars, textVars, result, calls, inflight>>

\* db.refresh(user), then the token for user.email is returned
SignupRespond(r) ==
    /\ op = "signup" /\ signups[r].pc = "refresh"
    /\ LET row == CHOOSE k \in DOMAIN user_rows : user_rows[k].request = r
       IN signups' = [signups EXCEPT ![r] =
             SignupEnds(@, 200, create_access_token(user_rows[row].email))]
    /\ UNCHANGED <<user_rows, chains, storyVars, op, settings, args, response, pc, cfg, rpVars,
                   engineVars, textVars, result, calls, inflight>>

\* three signup requests served concurrently
InitSignup ==
    /\ op = "signup"
    /\ settings \in SettingsChoices
    /\ settings.gemini_api_key # Empty /\ settings.runpod_api_key # Empty
    /\ args = NoArgs
    /\ Idle

NextSignup ==
    \/ \E r \in SignupIds : SignupAccept(r)
    \/ \E r \in SignupIds : SignupSelect(r)
    \/ \E r \in SignupIds : SignupCommit(r)
    \/ \E r \in SignupIds : SignupRespond(r)

SpecSignup == InitSignup /\ [][NextSignup]_vars

----------------------------------------------------------------------------
(* Properties *)

\* the POSTs of the current run of _execute_with_retry: those to its url
EngineCalls == SelectSeq(calls, LAMBDA c : c.url = url)

\* every answer the current run has received is a retryable status
AllRetryable ==
    \A k \in DOMAIN EngineCalls :
        EngineCalls[k].code = -1 \/ EngineCalls[k].code \in RETRYABLE_STATUS_CODES

\* C1: with max_retries = N >= 1 and only retryable statuses answered,
\* _execute_with_retry issues exactly N POSTs and then raises the HTTP-status
\* error of the last answer; it never issues an (N+1)-th POST.
C1_ExhaustsAfterExactlyNPosts ==
    (max_retries >= 1 /\ AllRetryable) =>
        /\ Len(EngineCalls) <= max_retries
        /\ exec_out.kind \in {"pending", "raise"}
        /\ exec_out.kind = "raise" =>
              /\ Len(EngineCalls) = max_retries
              /\ exec_out.err.type = "HTTPStatusError"
              /\ exec_out.err.status = EngineCalls[max_retries].code
        /\ (pc \notin {"start", "loop", "await", "classify", "sleep"}
              /\ Len(EngineCalls) > 0) => exec_out.kind = "raise"

C1_Witness ==
    /\ op = "execute" /\ max_retries = 3 /\ pc = "done"
    /\ Len(calls) = 3
    /\ \A k \in 1..3 : calls[k].code = 503
    /\ result.kind = "raise"

\* C2: when the first k answers are retryable statuses and answer k+1 is a
\* 200 with a JSON body, the engine has issued exactly k+1 POSTs, issues no
\* more, and returns that body.
C2_RetryThenSucceed ==
    \A k \in DOMAIN EngineCalls :
        ( /\ EngineCalls[k].code = 200
          /\ \A j \in 1..(k - 1) : EngineCalls[j].code \in RETRYABLE_STATUS_CODES )
        => /\ Len(EngineCalls) = k
           /\ k <= max_retries
           /\ res.kind = "http" /\ res.status = 200
           /\ (res.body.json /\ pc # "classify") => exec_out = ReturnBody(res.body)

C2_Witness ==
    /\ op = "execute" /\ max_retries = 3 /\ pc = "done"
    /\ Len(calls) = 3
    /\ calls[1].code = 503 /\ calls[2].code = 503 /\ calls[3].code = 200
    /\ result.kind = "return" /\ result.body.json

\* C3 (as claimed): when the primary model, or a supplied fallback model, is
\* not in TEXT_MODEL_ALLOWLIST, gemini_generate_text fails and no HTTP request
\* is issued.
C3_UnknownModelNoRequest ==
    ( /\ op = "text"
      /\ \/ Primary \notin TEXT_MODEL_ALLOWLIST
         \/ (args.text_fallback_model # Empty /\ Fallback \notin TEXT_MODEL_ALLOWLIST) )
    => /\ calls = <<>>
       /\ pc = "done" => result.kind = "raise"

\* C4 (as claimed): after a text model's endpoint has answered with an HTTP
\* error that is neither 404 nor retryable (400, 403), gemini_generate_text
\* issues no further POST: the error is propagated and the next model is not
\* called.
C4_OtherHttpErrorPropagates ==
    \A k \in DOMAIN calls :
        ( /\ op = "text"
          /\ calls[k].code >= 400
          /\ calls[k].code \notin RETRYABLE_STATUS_CODES \cup {404} )
        => /\ k = Len(calls)
           /\ pc = "done" => /\ result.kind = "raise"
                             /\ result.err.type = "HTTPStatusError"
                             /\ result.err.status = calls[k].code

\* C5: when the primary endpoint answers 404 and a fallback is in the chain,
\* the only POST to the primary is the first one and every later POST goes to
\* the fallback endpoint; an allowlisted fallback is then called, and when it
\* answers with text the call returns that text.
C5_NotFoundFallsBack ==
    ( /\ op = "text" /\ Len(models) = 2
      /\ Len(calls) >= 1
      /\ calls[1].url = TextUrl(models[1]) /\ calls[1].code = 404 )
    => /\ \A k \in 2..Len(calls) : calls[k].url = TextUrl(models[2])
       /\ TextUrl(models[1]) # TextUrl(models[2])
       /\ (pc = "done" /\ models[2] \in TEXT_MODEL_ALLOWLIST) =>
             /\ Len(calls) >= 2
             /\ result.kind = "return" =>
                   /\ calls[Len(calls)].code = 200
                   /\ result.value = ExtractText(res.body)
             /\ ( /\ calls[Len(calls)].code = 200
                  /\ res.body.json
                  /\ Len(res.body.candidates) > 0
                  /\ ExtractText(res.body) # Empty ) => result.kind = "return"

C5_Witness ==
    /\ op = "text" /\ pc = "done" /\ Len(models) = 2
    /\ Len(calls) = 2
    /\ calls[1].code = 404 /\ calls[2].code = 200
    /\ calls[1].url = TextUrl(models[1]) /\ calls[2].url = TextUrl(models[2])
    /\ result.kind = "return" /\ result.value = <<"Once", " ", "upon">>

\* C6: when gemini_generate_text raises after going through its attempt
\* chain, the error is the one produced by the last model of the chain, never
\* an earlier model's.
C6_LastErrorSurfaced ==
    (op = "text" /\ pc = "done" /\ result.kind = "raise" /\ models # << >>) =>
        /\ result.err = att_out.err
        /\ result.err.model = models[Len(models)]
        /\ Len(models) = 2 => result.err.model # models[1]

C6_Witness ==
    /\ op = "text" /\ pc = "done" /\ Len(models) = 2
    /\ Len(calls) = 2
    /\ calls[1].code = 200 /\ calls[2].code = 200
    /\ result.kind = "raise"
    /\ result.err.msg = "Empty response from Gemini model"
    /\ last_err.model = models[2]

\* C7: a status >= 400 outside the retryable set ends the run on that attempt:
\* it is the last POST of the run, no backoff sleep follows it, and the run
\* raises the HTTP-status error of that answer.
C7_NonRetryableFailsAtOnce ==
    \A k \in DOMAIN EngineCalls :
        ( /\ EngineCalls[k].code >= 400
          /\ EngineCalls[k].code \notin RETRYABLE_STATUS_CODES )
        => /\ k = Len(EngineCalls)
           /\ attempt = k - 1
           /\ pc # "sleep"
           /\ pc # "classify" =>
                 exec_out = Raise(Err("HTTPStatusError", EngineCalls[k].code, LogModel, ""))

C7_Witness ==
    /\ op = "execute" /\ max_retries = 3 /\ pc = "done"
    /\ Len(calls) = 2
    /\ calls[1].code = 503 /\ calls[2].code = 400
    /\ result.kind = "raise" /\ result.err.status = 400
    /\ sleeps = 1

\* C8: a network error on an attempt before the last is followed by a backoff
\* and another attempt; on the last attempt it is raised.  The error raised
\* has the kind of the last attempt's failure: HTTP-status error after a
\* status, network error after a network error.
C8_NetworkErrorRetried ==
    /\ \A k \in DOMAIN EngineCalls :
          EngineCalls[k].code = 0 =>
             /\ (k < max_retries /\ k = Len(EngineCalls)) =>
                   /\ exec_out.kind = "pending"
                   /\ pc \in {"classify", "sleep", "loop"}
                   /\ pc = "loop" => (attempt = k /\ wait_time > 0)
             /\ (k = max_retries /\ pc # "classify") =>
                   exec_out = Raise(Err("RequestError", 0, LogModel, ""))
    /\ pc \in {"await", "classify", "sleep"} => Len(EngineCalls) = attempt + 1
    /\ sleeps >= attempt
    /\ (exec_out.kind = "raise" /\ Len(EngineCalls) > 0) =>
          LET last == EngineCalls[Len(EngineCalls)].code IN
          /\ last = 0 <=> exec_out.err.type = "RequestError"
          /\ last >= 300 <=> exec_out.err.type = "HTTPStatusError"
          /\ last >= 300 => exec_out.err.status = last

C8_Witness ==
    /\ op = "execute" /\ max_retries = 3 /\ pc = "done"
    /\ Len(calls) = 3
    /\ calls[1].code = 0 /\ calls[2].code = 503 /\ calls[3].code = 0
    /\ result.kind = "raise" /\ result.err.type = "RequestError"
    /\ sleeps = 2

\* C9 (as claimed): gemini_generate_image never raises: it returns a data URL
\* or None for every input.
C9_ImageNeverRaises ==
    (op = "image" /\ pc = "done") => result.kind \in {"return", "none"}

\* C9 (amended): gemini_generate_image raises ValueError when the selected
\* model is not allowlisted or the API key is missing; in every other case it
\* returns a data URL or None, whatever the transport does.
C9_ImageRaisesOnlyConfigErrors ==
    (op = "image" /\ pc = "done") =>
        IF SelectedImageModel \notin IMAGE_MODEL_ALLOWLIST \/ settings.gemini_api_key = Empty
        THEN result.kind = "raise" /\ result.err.type = "ValueError"
        ELSE /\ result.kind \in {"return", "none"}
             /\ result.kind = "return" => Head(result.value) = "data:"
             /\ exec_out.kind = "raise" => result = ReturnNone

C9_Witness ==
    /\ op = "image" /\ pc = "done"
    /\ Len(calls) = 3 /\ calls[3].code = 0
    /\ exec_out.kind = "raise"
    /\ result = ReturnNone

\* C10 (as claimed): an image model identifier that is not a key of
\* IMAGE_MODEL_ALLOWLIST makes gemini_generate_image fail before any request.
C10_UnlistedIdentifierNoRequest ==
    (op = "image" /\ Or(args.imagen_model, settings.imagen_model) \notin IMAGE_MODEL_ALLOWLIST)
    => /\ calls = <<>>
       /\ pc = "done" => result.kind = "raise"

\* C10 (amended): an image model identifier whose stripped form is not a key
\* of IMAGE_MODEL_ALLOWLIST makes gemini_generate_image raise ValueError with
\* no request issued.
C10_UnlistedStrippedNoRequest ==
    (op = "image" /\ StrStrip(Or(args.imagen_model, settings.imagen_model)) \notin IMAGE_MODEL_ALLOWLIST)
    => /\ calls = <<>>
       /\ inflight = {}
       /\ pc \in {"start", "done"}
       /\ pc = "done" => (result.kind = "raise" /\ result.err.type = "ValueError")

C10_Witness ==
    /\ op = "image" /\ pc = "done"
    /\ args.imagen_model = S("imagen-3.0-generate-002")
    /\ settings.gemini_api_key # Empty
    /\ calls = <<>>
    /\ result.kind = "raise"

----------------------------------------------------------------------------
(* _sanitize_generation_config *)

\* the value v of key k lies in the range documented for k
InRange(k, v) ==
    CASE k = "temperature"     -> v.t = "float" /\ v.v >= 0 /\ v.v <= 200
      [] k = "topP"            -> v.t = "float" /\ v.v >= 0 /\ v.v <= 100
      [] k = "topK"            -> v.t = "int" /\ v.v >= 1 /\ v.v <= 128
      [] k = "maxOutputTokens" -> v.t = "int" /\ v.v >= 1 /\ v.v <= 32768
      [] OTHER                 -> FALSE

\* C11: for every input, _sanitize_generation_config returns (it never
\* fails); its output has only the four known keys, each value in its range;
\* and a known key whose value cannot be coerced is the only key dropped,
\* every coercible known key of the input being kept.
C11_SanitizeNeverFails ==
    (op = "sanitize" /\ pc = "done") =>
        /\ cfg.kind = "return"
        /\ DOMAIN cfg.dict \subseteq {KnownKeys[n] : n \in 1..4}
        /\ \A k \in DOMAIN cfg.dict : InRange(k, cfg.dict[k])
        /\ \A k \in DOMAIN args.generation_config :
              (k \in {KnownKeys[n] : n \in 1..4}
                  /\ Coerce(k, args.generation_config[k]).exc = "")
              => k \in DOMAIN cfg.dict

----------------------------------------------------------------------------
(* Missing API keys *)

\* the API key the call needs is not configured
RequiredKeyMissing ==
    \/ op = "image" /\ settings.gemini_api_key = Empty
    \/ op = "text" /\ StrLower(Primary) # S("xstory") /\ settings.gemini_api_key = Empty
    \/ op = "text" /\ StrLower(Primary) = S("xstory") /\ settings.runpod_api_key = Empty

\* C12: when the API key the call needs is not configured, text generation
\* (provider chain and alternate backend) and image generation issue no HTTP
\* request at any point, the transport retry loop is never entered, and the
\* call ends by raising a configuration error (a ValueError).
C12_MissingKeyNoRequest ==
    RequiredKeyMissing =>
        /\ calls = << >> /\ inflight = {}
        /\ attempt = 0 /\ sleeps = 0 /\ pc \notin {"loop", "await", "classify", "sleep"}
        /\ rp_attempt = 0 /\ pc \notin {"rp_post", "rp_await", "rp_handle"}
        /\ pc = "done" => result.kind = "raise" /\ result.err.type = "ValueError"

\* the provider chain of two models has failed on the key check of each
C12_Witness ==
    /\ op = "text" /\ pc = "done"
    /\ settings.gemini_api_key = Empty
    /\ Len(models) = 2 /\ i = 3
    /\ models[1] \in TEXT_MODEL_ALLOWLIST /\ models[2] \in TEXT_MODEL_ALLOWLIST
    /\ result = Raise(Err("ValueError", 0, models[2], "API key is not configured"))
    /\ calls = << >>

----------------------------------------------------------------------------
(* The attempt chain *)

\* the fallback identifier the chain is built from: the caller's, else the
\* configured one, stripped
RequestedFallback ==
    StrStrip(IF args.text_fallback_model # Empty THEN args.text_fallback_model
             ELSE settings.gemini_text_fallback_model)

\* the call is one of the alternate backend's endpoints
IsRunpodCall(c) == Head(c.url) \in {"runsync", "run", "status"}

\* C13: when the primary is not xstory, the attempt chain is [primary],
\* followed by the fallback if and only if the fallback is non-empty, differs
\* from the primary and is not xstory in any letter case; so the chain has at
\* most two entries, never the same identifier twice, every request goes to
\* the generateContent endpoint of a model of the chain, and none goes to the
\* alternate backend.
C13_ChainShape ==
    (op = "text" /\ pc # "start" /\ StrLower(Primary) # S("xstory")) =>
        /\ Len(models) \in {1, 2}
        /\ models[1] = Primary
        /\ Len(models) = 2 <=>
              /\ RequestedFallback # Empty
              /\ RequestedFallback # Primary
              /\ StrLower(RequestedFallback) # S("xstory")
        /\ Len(models) = 2 => models[2] = RequestedFallback /\ models[2] # models[1]
        /\ \A k \in DOMAIN calls :
              /\ ~IsRunpodCall(calls[k])
              /\ \E n \in DOMAIN models : calls[k].url = TextUrl(models[n])
        /\ rp_phase = "none"

\* the caller asked for XSTORY as the fallback: the primary alone was tried,
\* three times, and its failure ended the call
C13_Witness ==
    /\ op = "text" /\ pc = "done"
    /\ args.text_fallback_model = S("XSTORY")
    /\ models = <<S("gemini-2.5-flash")>>
    /\ Len(calls) = 3 /\ \A k \in 1..3 : calls[k] = [url |-> TextUrl(models[1]), code |-> 503]
    /\ result.kind = "raise"

----------------------------------------------------------------------------
(* Routing to the alternate backend *)

\* C14: when the primary identifier is xstory (in any letter case),
\* gemini_generate_text only delegates to the adapter: no attempt chain is
\* built, the retry loop of the provider is never entered, every request goes
\* to an endpoint of the alternate backend, and when the adapter fails its
\* error is the outcome of the call, no fallback model being tried.
C14_XstoryDelegatesOnly ==
    (op = "text" /\ StrLower(Primary) = S("xstory")) =>
        /\ models = << >> /\ i = 0 /\ att_out = Pending
        /\ attempt = 0 /\ exec_out = Pending /\ url = NoUrl
        /\ \A k \in DOMAIN calls : IsRunpodCall(calls[k])
        /\ pc \in {"start", "runpod", "rp_post", "rp_await", "rp_handle",
                   "poll_check", "poll_await", "poll_handle", "done"}

\* the adapter failed on a 400 to /run although a fallback model is configured
C14_Witness ==
    /\ op = "text" /\ pc = "done"
    /\ args.text_model = S("XSTORY")
    /\ RequestedFallback = S("gemini-2.5-pro")
    /\ calls = <<[url |-> RunsyncUrl, code |-> 503], [url |-> RunUrl, code |-> 400]>>
    /\ result = Raise(Err("HTTPStatusError", 400, Empty, ""))

----------------------------------------------------------------------------
(* Success in the attempt chain *)

\* C15: as soon as a model of the chain yields non-empty text, that text is
\* what gemini_generate_text returns: the last request is the 200 of that
\* model, every request went to that model or an earlier one of the chain,
\* and the chain is not resumed.
C15_SuccessReturnsAtOnce ==
    (op = "text" /\ StrLower(Primary) # S("xstory") /\ att_out.kind = "return") =>
        /\ pc \in {"text_except", "done"}
        /\ att_out.value # Empty
        /\ att_out.value = ExtractText(exec_out.body)
        /\ calls[Len(calls)] = [url |-> TextUrl(models[i]), code |-> 200]
        /\ \A k \in DOMAIN calls : \E n \in 1..i : calls[k].url = TextUrl(models[n])
        /\ pc = "done" => result = att_out

\* the primary of a chain of two succeeded on its second request
C15_Witness ==
    /\ op = "text" /\ pc = "done"
    /\ Len(models) = 2 /\ i = 1
    /\ calls = <<[url |-> TextUrl(models[1]), code |-> 503],
                 [url |-> TextUrl(models[1]), code |-> 200]>>
    /\ result.kind = "return" /\ result.value # Empty

----------------------------------------------------------------------------
(* The alternate backend *)

\* the call is served by the adapter
ViaAdapter == op = "text" /\ StrLower(Primary) = S("xstory")

\* the positions in the transport log of the requests to url u
CallsTo(u) == {k \in DOMAIN calls : calls[k].url = u}

\* C16: in JSON mode the adapter never issues a POST to /runsync, and its
\* first request is the POST to /run.
C16_JsonModeSkipsRunsync ==
    (ViaAdapter /\ args.json_mode) =>
        /\ CallsTo(RunsyncUrl) = {}
        /\ calls # << >> => calls[1].url = RunUrl

\* a JSON-mode call submitted with /run, polled once and returned the text
C16_Witness ==
    /\ ViaAdapter /\ args.json_mode /\ pc = "done"
    /\ calls = <<[url |-> RunUrl, code |-> 200],
                 [url |-> StatusUrl(S("job-1")), code |-> 200]>>
    /\ result.kind = "return"

\* C17: one adapter call issues at most two POSTs to /run, the second right
\* after the first and only when the first was answered with a retryable
\* status (the retryable set or 524); a first retryable answer is always
\* followed by the second POST; and when the second answer is retryable too
\* the call ends with an HTTP-status error of that status, no status request
\* having been issued after the submission.
C17_RunSubmittedAtMostTwice ==
    ViaAdapter =>
        LET runs == CallsTo(RunUrl)
            first == CHOOSE k \in runs : \A m \in runs : k <= m
            handled == pc \notin {"rp_await", "rp_handle"}
        IN /\ Cardinality(runs) <= 2
           /\ Cardinality(runs) = 2 =>
                 /\ runs = {first, first + 1}
                 /\ calls[first].code \in RUNPOD_RETRYABLE_STATUS_CODES
           /\ (Cardinality(runs) = 1 /\ handled
                 /\ calls[first].code \in RUNPOD_RETRYABLE_STATUS_CODES)
                 => pc = "rp_post" /\ rp_attempt = 1
           /\ (Cardinality(runs) = 2 /\ handled
                 /\ calls[first + 1].code \in RUNPOD_RETRYABLE_STATUS_CODES)
                 => /\ pc = "done"
                    /\ result = Raise(Err("HTTPStatusError", calls[first + 1].code, Empty, ""))
                    /\ Len(calls) = first + 1

\* /run answered 524, then 503: the HTTP-status error of the 503 is raised
C17_Witness ==
    /\ ViaAdapter /\ pc = "done"
    /\ calls = <<[url |-> RunUrl, code |-> 524], [url |-> RunUrl, code |-> 503]>>
    /\ result = Raise(Err("HTTPStatusError", 503, Empty, ""))

\* C18 (as claimed): whenever the polling loop finds that the elapsed time
\* exceeds the effective timeout, a timeout error ends the adapter call and
\* no further request is issued.
C18_PollTimeoutEndsCall ==
    [][(ViaAdapter /\ pc = "poll_check" /\ elapsed > effective_timeout_s)
          => /\ pc' = "done"
             /\ result'.kind = "raise" /\ result'.err.type = "TimeoutError"
             /\ calls' = calls]_vars

\* C18 (amended): when the polling loop finds that the elapsed time exceeds
\* the effective timeout it issues no status request; in the polling that
\* follows a /run submission a TimeoutError, which is not the transport's
\* RequestError, ends the adapter call with no further request; in the
\* polling started from a /runsync answer the TimeoutError is caught and the
\* adapter goes on to submit the job with /run.
C18_PollTimeoutTerminalAfterRun ==
    [][(ViaAdapter /\ pc = "poll_check" /\ elapsed > effective_timeout_s)
          => /\ calls' = calls
             /\ IF rp_phase = "run"
                THEN /\ pc' = "done"
                     /\ result' = Raise(Err("TimeoutError", 0, Empty, "RunPod job timed out"))
                     /\ result'.err.type # "RequestError"
                ELSE /\ pc' = "rp_post" /\ rp_phase' = "run" /\ rp_attempt' = 0
                     /\ result' = Pending]_vars

\* a JSON-mode call whose job was still in progress when the timeout passed
C18_Witness ==
    /\ ViaAdapter /\ pc = "done" /\ rp_phase = "run"
    /\ elapsed > effective_timeout_s
    /\ calls[Len(calls)] = [url |-> StatusUrl(job_id), code |-> 200]
    /\ result = Raise(Err("TimeoutError", 0, Empty, "RunPod job timed out"))

\* the status answer {"status": "COMPLETED", "output": {"text": ["a", "b"]}}
CompletedAB ==
    RpBody(JDict([status |-> JStr(<<"COMPLETED">>),
                  output |-> JDict([text |-> JList(<<JStr(<<"a">>), JStr(<<"b">>)>>)])]))

----------------------------------------------------------------------------
(* Legacy image models *)

\* identifiers of the legacy family: those _imagen_url would serve by :predict
LegacyImageModels ==
    {m \in {StrStrip(a) : a \in ImagenModelArgs} :
        m = S("imagen-3.0-generate-002") /\ _imagen_url(m) = PredictUrl(m)}

\* the engine returned a body with bytesBase64Encoded under the first prediction
HasPredictionBytes ==
    /\ exec_out.kind = "return"
    /\ Len(exec_out.body.predictions) > 0
    /\ exec_out.body.predictions[1] # Empty

\* C20: image generation with a legacy-family model, the API key being set,
\* that got no bytesBase64Encoded under the first prediction returns None and
\* does not raise.
C20_LegacyNoBytesReturnsNone ==
    (op = "image" /\ pc = "done" /\ settings.gemini_api_key # Empty
        /\ SelectedImageModel \in LegacyImageModels /\ ~HasPredictionBytes)
    => result = ReturnNone

----------------------------------------------------------------------------
(* The /api/ai endpoints *)

\* the messages of the checks made on what the caller or the configuration
\* supplied: the model identifier and the API key
ValidationMessages ==
    {"Unsupported text model", "Unsupported image model", "API key is not configured",
     "STORYFORGE_RUNPOD_API_KEY is not configured", "Invalid chapter index"}

\* C21: whenever a text-generation endpoint (/api/ai/text, /api/ai/chapter,
\* /api/ai/analyze_blueprint, /api/ai/sequel) answers with an error, its
\* detail is "AI provider request failed" unless the failure is a validation
\* problem; a provider failure never surfaces a specific message.
C21_TextFailureDetailGeneric ==
    (response.endpoint \in TextEndpoints /\ response.status >= 400) =>
        \/ response.detail = GenericDetail
        \/ response.detail \in ValidationMessages

\* C22: when gemini_generate_image produces no image, /api/ai/imagen does not
\* answer the end user with an error: it answers 200 with no image.
C22_NoImageIsNotAnError ==
    (response.endpoint = "imagen" /\ result.kind = "none") =>
        response.status = 200 /\ response.body = "none"

\* how often story_id occurs in a list of summaries
Occurrences(items, story_id) ==
    Cardinality({k \in DOMAIN items : items[k].id = story_id})

\* C23: as long as one user alone has called the story endpoints, an id that
\* this user has upserted and not deleted since is answered by get with the
\* title and config of the latest upsert and is listed exactly once; any other
\* id is answered 404 by get, is not listed, and delete finds no row for it
C23_RetrievableIffUpsertedNotDeleted ==
    \A u \in Users, id \in StoryIds :
        actors \subseteq {u} =>
            LET g == get_story(db, id, u)
                n == Occurrences(list_stories_for_user(db, u), id)
            IN IF latest[u][id] # NoRequest
               THEN /\ g.status = 200
                    /\ g.title = latest[u][id].title
                    /\ g.config = latest[u][id].config
                    /\ n = 1
               ELSE /\ g.status = 404
                    /\ n = 0
                    /\ ~delete_story_for_user(db, id, u)

\* one user has upserted both ids, the first one twice with a new title and
\* config, and has just deleted the other
C23_Witness ==
    /\ actors = {1} /\ now = MaxNow
    /\ reply.op = "delete" /\ reply.status = 200 /\ reply.id = S("del123")
    /\ latest[1][S("story123")].title = S("My Epic Story")
    /\ latest[1][S("story123")].config # EmptyDict
    /\ db[S("story123")].created_at < db[S("story123")].updated_at

\* the two errors _gemini_generate_text_with_model raises for a 2xx body with
\* no candidates or no extractable text
EmptyResponse(e) ==
    e.type = "ValueError"
        /\ e.msg \in {"No candidates returned from Gemini", "Empty response from Gemini model"}

\* C24: once a model's empty or invalid 2xx response has been handled by the
\* fallback loop, the POST that received it is the last POST to that model's
\* endpoint and the only one answered 2xx (any POST before it was answered by a
\* retryable status or a network error), the loop has moved to the next
\* position of the chain, and when no model remains the call ends raising
\* that error.
C24_EmptyResponseNotRetried ==
    (op = "text" /\ EmptyResponse(last_err)) =>
        LET cs == CallsTo(TextUrl(last_err.model))
        IN /\ cs # {}
           /\ \A k \in cs :
                 IF \A m \in cs : m <= k
                 THEN calls[k].code = 200
                 ELSE calls[k].code \in RETRYABLE_STATUS_CODES \cup {0}
           /\ i > 1 /\ models[i - 1] = last_err.model
           /\ (i > Len(models) /\ pc = "done") => result = Raise(last_err)
           /\ (i <= Len(models) /\ pc = "done") => result.kind = "return"

\* the primary answered 503 and then a 2xx without text, the fallback was
\* posted to and returned its text
C24_Witness ==
    /\ op = "text" /\ EmptyResponse(last_err) /\ pc = "done"
    /\ Len(models) = 2 /\ i = 2 /\ result.kind = "return"
    /\ Cardinality(CallsTo(TextUrl(models[1]))) = 2
    /\ CallsTo(TextUrl(models[2])) # {}

\* res.json() raised inside _execute_with_retry
JsonErrorRaised(out) == out.kind = "raise" /\ out.err.type = "JSONDecodeError"

\* C25: the step that handles a 2xx response whose body is not JSON ends the
\* run of _execute_with_retry raising the parse error, at any attempt index,
\* and as long as that outcome stands no request is issued.
C25_NotJsonEndsEngine ==
    [][ /\ (pc = "classify" /\ res.kind = "http" /\ res.status >= 200
               /\ res.status < 300 /\ ~res.body.json)
           => (JsonErrorRaised(exec_out') /\ pc' = AfterEngine /\ calls' = calls
                  /\ attempt' = attempt)
        /\ (JsonErrorRaised(exec_out) /\ exec_out' = exec_out) => calls' = calls
      ]_vars

\* the parse error was raised on the second of three attempts, after a 503
C25_Witness ==
    /\ JsonErrorRaised(exec_out)
    /\ attempt = 1 /\ max_retries = DefaultMaxRetries
    /\ Len(calls) = 2 /\ calls[1].code = 503 /\ calls[2].code = 200

\* the adapter is polling, or has polled, a job whose id came with the
\* answer to /runsync: it has not left the /runsync try block
PolledFromRunsync ==
    ViaAdapter /\ ~args.json_mode /\ rp_phase = "runsync" /\ job_id # Empty

\* C26: in non-JSON mode the first request of the adapter is the POST to
\* /runsync; when its 2xx answer carries no text but a job id, the adapter
\* polls /status/{id} with the id of that answer and nothing else, and when
\* the poll ends with the text of a COMPLETED job that text is returned and no
\* POST to /run has been made.
C26_RunsyncIdOnlyPolledNotResubmitted ==
    /\ (ViaAdapter /\ ~args.json_mode /\ calls # << >>) => calls[1].url = RunsyncUrl
    /\ PolledFromRunsync =>
          /\ calls[1].code = 200
          /\ \A k \in 2..Len(calls) : calls[k].url = StatusUrl(job_id)
          /\ CallsTo(RunUrl) = {} /\ CallsTo(RunsyncUrl) = {1}
          /\ (Len(calls) = 1 /\ pc = "poll_check") =>
                /\ job_id = IdOf(rp_res.body.data)
                /\ _extract_runpod_text(rp_res.body.data) = Empty
          /\ (pc = "done" /\ result.kind = "return") =>
                /\ Len(calls) >= 2
                /\ StatusOf(rp_res.body.data) = S("COMPLETED")
                /\ result = Return(_extract_runpod_text(rp_res.body.data))

\* /runsync answered with an id only, the second status request found the
\* job COMPLETED and its text was returned
C26_Witness ==
    /\ PolledFromRunsync /\ pc = "done" /\ result.kind = "return"
    /\ Len(calls) = 3 /\ calls[3].url = StatusUrl(S("job-1"))
    /\ result.value = <<"a", "b">>

\* C27: the step of the polling loop that handles a status response >= 400:
\* a retryable status (524 included) raises nothing, the loop sleeps sleep_s and
\* goes back to the top to poll again; any other status >= 400 ends the
\* polling with an HTTP-status error carrying that status: after a /run
\* submission the adapter call ends with it, while inside the /runsync block
\* the adapter catches it and goes on to submit with /run.
C27_PollRetryableNotSurfaced ==
    [][ (pc = "poll_handle" /\ rp_res.kind = "http" /\ rp_res.status >= 400) =>
           IF rp_res.status \in RUNPOD_RETRYABLE_STATUS_CODES
           THEN /\ pc' = "poll_check"
                /\ elapsed' = elapsed + sleep_s
                /\ result' = result /\ rp_phase' = rp_phase /\ job_id' = job_id
                /\ calls' = calls
           ELSE IF rp_phase = "run"
           THEN /\ pc' = "done"
                /\ result' = Raise(Err("HTTPStatusError", rp_res.status, Empty, ""))
           ELSE /\ pc' = "rp_post" /\ rp_phase' = "run" /\ result' = result
      ]_vars

\* a status request was answered 524, the loop slept and polled again, and
\* that second request was answered 503: the call is still polling
C27_Witness ==
    /\ pc = "poll_handle" /\ rp_res.kind = "http" /\ rp_res.status = 503
    /\ sleep_s = NextSleep(InitialSleep)
    /\ Len(calls) >= 2 /\ calls[Len(calls) - 1] = [url |-> StatusUrl(job_id), code |-> 524]
    /\ result = Pending

\* the positions of _poll_status
PollPcs == {"poll_check", "poll_await", "poll_handle"}

\* the ways _poll_status ends when the status request is answered
ExitTimeout == pc = "poll_check" /\ elapsed > effective_timeout_s

ExitHttpError ==
    /\ pc = "poll_handle" /\ rp_res.kind = "http" /\ rp_res.status >= 400
    /\ rp_res.status \notin RUNPOD_RETRYABLE_STATUS_CODES

ExitNotJson ==
    pc = "poll_handle" /\ rp_res.kind = "http" /\ rp_res.status < 400 /\ ~rp_res.body.json

ExitCompleted ==
    /\ pc = "poll_handle" /\ rp_res.kind = "http" /\ rp_res.status < 400
    /\ rp_res.body.json /\ StatusOf(rp_res.body.data) = S("COMPLETED")

ExitFailed ==
    /\ pc = "poll_handle" /\ rp_res.kind = "http" /\ rp_res.status < 400
    /\ rp_res.body.json /\ StatusOf(rp_res.body.data) = S("FAILED")

\* the polling loop is left by this step, and not because the status
\* request met a transport error
PollEnds == pc \in PollPcs /\ pc' \notin PollPcs /\ ~(pc = "poll_handle" /\ rp_res.kind = "net")

\* how many of the listed conditions hold
HowMany(conds) == Cardinality({k \in DOMAIN conds : conds[k]})

\* C28 as stated: every end of the polling loop is one of COMPLETED, FAILED,
\* non-retryable HTTP error and timeout
C28_FourWaysOnly ==
    [][ PollEnds => HowMany(<<ExitCompleted, ExitFailed, ExitHttpError, ExitTimeout>>) = 1 ]_vars

\* C28: when every status request is answered, a polling loop that has
\* started always ends, it ends as soon as one of five conditions is met, and
\* it ends in exactly one of these five ways: COMPLETED
\* payload returned, FAILED raised, non-retryable HTTP error raised, timeout
\* raised with elapsed beyond the effective timeout, or the parse error of a
\* response below 400 whose body is not JSON; after a /run submission the
\* four errors end the adapter call with that error.
C28_PollingTerminates ==
    /\ (pc \in PollPcs) ~> (pc \notin PollPcs)
    /\ [][ (ExitCompleted \/ ExitFailed \/ ExitHttpError \/ ExitTimeout \/ ExitNotJson)
              => pc' \notin PollPcs ]_vars
    /\ [][ PollEnds =>
             /\ HowMany(<<ExitCompleted, ExitFailed, ExitHttpError, ExitTimeout,
                          ExitNotJson>>) = 1
             /\ (rp_phase = "run" /\ ~ExitCompleted) =>
                   /\ pc' = "done" /\ result'.kind = "raise"
                   /\ result'.err.type =
                         CASE ExitFailed -> "ValueError"
                           [] ExitHttpError -> "HTTPStatusError"
                           [] ExitTimeout -> "TimeoutError"
                           [] ExitNotJson -> "JSONDecodeError"
                   /\ calls' = calls
             /\ ExitCompleted =>
                   /\ pc' = "done" /\ calls' = calls
                   /\ result' = IF _extract_runpod_text(rp_res.body.data) # Empty
                                THEN Return(_extract_runpod_text(rp_res.body.data))
                                ELSE Raise(Err("ValueError", 0, Empty,
                                               IF rp_phase = "runsync"
                                               THEN "Invalid response format from RunPod"
                                               ELSE "Invalid RunPod /status output"))
       ]_vars

\* every status request after a /run submission was answered by a retryable
\* status, and the loop ended with the timeout error
C28_Witness ==
    /\ pc = "done" /\ rp_phase = "run" /\ result = Raise(PollTimeoutError)
    /\ Cardinality(CallsTo(StatusUrl(job_id))) >= 2
    /\ \A k \in CallsTo(StatusUrl(job_id)) : calls[k].code \in {503, 524}

\* C29: the sleep of the polling loop is 0.5 s when the loop is entered; a
\* poll that does not end the loop, whether answered by a retryable status or
\* by a job that is not finished, multiplies it by 1.3 (to the microsecond) as
\* long as the product is at most 2.0 s and sets it to 2.0 s otherwise; no
\* other step of the loop changes it: it never exceeds 2.0 s, never decreases
\* and stays at 2.0 s once there.
C29_PollSleepBackoff ==
    /\ [](pc \in PollPcs => (sleep_s >= InitialSleep /\ sleep_s <= MaxSleep))
    /\ [][ /\ (pc \notin PollPcs /\ pc' \in PollPcs) => sleep_s' = 500000
           /\ (pc \in PollPcs /\ pc' \in PollPcs) =>
                 IF pc = "poll_handle"
                 THEN /\ sleep_s' >= sleep_s
                      /\ sleep_s = 2000000 => sleep_s' = 2000000
                      /\ IF sleep_s * 13 <= 2000000 * 10
                         THEN sleep_s' * 10 <= sleep_s * 13 /\ sleep_s' * 10 > sleep_s * 13 - 10
                         ELSE sleep_s' = 2000000
                 ELSE sleep_s' = sleep_s
       ]_vars

\* the sleep has reached 2.0 s on the sixth non-terminal poll and has stayed
\* there on the seventh
C29_Witness ==
    /\ op = "poll" /\ pc = "poll_check"
    /\ sleep_s = MaxSleep /\ elapsed >= 8378015

\* the bounds 0.5 * 2^a and 1.5 * 2^a of a backoff wait, in tenths of a second
WithinBackoff(w, a) == w >= 5 * Pow2(a) /\ w <= 15 * Pow2(a)

\* C30: the retry loop sleeps only after an attempt a that is not the final
\* one and that failed with a retryable status or a network error, and the
\* wait it sleeps lies between 0.5 * 2^a and 1.5 * 2^a seconds in both cases;
\* the step that handles the answer to the final attempt starts no sleep.
C30_BackoffWithinJitterBounds ==
    [][ /\ sleeps' # sleeps =>
              /\ pc = "sleep" /\ sleeps' = sleeps + 1
              /\ attempt < max_retries - 1
              /\ res.kind = "net" \/ (res.kind = "http" /\ res.status \in RETRYABLE_STATUS_CODES)
              /\ WithinBackoff(wait_time, attempt)
        /\ pc' = "sleep" =>
              /\ pc = "classify" /\ attempt < max_retries - 1
              /\ WithinBackoff(wait_time', attempt)
        /\ (pc = "classify" /\ attempt >= max_retries - 1) =>
              /\ pc' # "sleep" /\ sleeps' = sleeps /\ wait_time' = wait_time
      ]_vars

\* the second attempt of four met a network error after a 503, and the loop
\* waits 1.5 * 2^1 = 3.0 s before the third
C30_Witness ==
    /\ pc = "sleep" /\ attempt = 1 /\ max_retries = 4
    /\ res.kind = "net" /\ calls[1].code = 503
    /\ wait_time = 30 /\ sleeps = 1

\* the texts of the parts that carry text, in order
RECURSIVE ConcatNonEmpty(_)
ConcatNonEmpty(ps) ==
    IF ps = << >> THEN Empty
    ELSE (IF ps[1].text # Empty THEN ps[1].text ELSE Empty) \o ConcatNonEmpty(Tail(ps))

\* the first non-empty string of a list, Empty when there is none
FirstNonEmpty(xs) ==
    IF \E k \in DOMAIN xs : xs[k] # Empty
    THEN xs[CHOOSE k \in DOMAIN xs : xs[k] # Empty /\ \A m \in 1..(k - 1) : xs[m] = Empty]
    ELSE Empty

\* C31: the response processing reads the first candidate only; its outcome is
\* the first non-empty string among the stripped concatenation of the text
\* parts, the stripped content.text and the stripped candidate.text, in that
\* order; with no candidate, or with all three empty, it raises the empty or
\* invalid response error and never returns an empty string.
C31_FirstCandidateThreeLocations ==
    (op = "extract" /\ pc = "done") =>
        LET cs == exec_out.body.candidates
            want == IF cs = << >> THEN Empty
                    ELSE FirstNonEmpty(<<StrStrip(ConcatNonEmpty(cs[1].parts)),
                                         StrStrip(cs[1].ctext), StrStrip(cs[1].text)>>)
        IN IF want = Empty
           THEN att_out.kind = "raise" /\ EmptyResponse(att_out.err)
           ELSE att_out = Return(want)

\* two candidates; the first has only blank parts and a blank content.text, so
\* its candidate.text is returned, stripped, and the second is not read
C31_Witness ==
    /\ op = "extract" /\ pc = "done"
    /\ Len(exec_out.body.candidates) = 2
    /\ exec_out.body.candidates[1] = Candidate(<<Part(S(" ")), Part(Empty)>>, S(" "), <<"t", " ">>)
    /\ att_out = Return(S("t"))

\* a float value, in hundredths, between lo and hi
FloatWithin(x, lo, hi) == x.t = "float" /\ x.v >= lo /\ x.v <= hi

\* an int value between lo and hi
IntWithin(x, lo, hi) == x.t = "int" /\ x.v >= lo /\ x.v <= hi

\* the caller passed nothing under key k, or a value that is no number
NothingUsable(gc, k) == k \notin DOMAIN gc \/ gc[k].t \in {"badstr", "none", "list"}

\* the caller's value under key k is converted without an exception
Survives(gc, k) == k \in DOMAIN gc /\ Coerce(k, gc[k]).exc = ""

\* C32: when a POST to the primary provider has been issued, the generationConfig
\* of its payload holds temperature in [0, 2], topP in [0, 1], topK in [1, 128]
\* and maxOutputTokens in [1, 32768]; a key under which the caller passed
\* nothing or a value that is no number has the default 0.85, 0.95, 64 or
\* 16384, a key whose value survives the conversion has that value, clamped,
\* and any remaining key (a value int() rejects, such as "0.7" or nan) has the
\* default too; responseMimeType is there, as application/json, exactly when
\* json_mode is set.
C32_PayloadGenerationConfig ==
    (op = "payload" /\ calls # << >>) =>
        LET gc == args.generation_config
            sent == cfg.dict
        IN /\ cfg.kind = "return"
           /\ DOMAIN sent \ {"responseMimeType"} = {"temperature", "topP", "topK", "maxOutputTokens"}
           /\ FloatWithin(sent["temperature"], 0, 200)
           /\ FloatWithin(sent["topP"], 0, 100)
           /\ IntWithin(sent["topK"], 1, 128)
           /\ IntWithin(sent["maxOutputTokens"], 1, 32768)
           /\ \A k \in {"temperature", "topP", "topK", "maxOutputTokens"} :
                 /\ NothingUsable(gc, k) => sent[k] = DefaultGenerationConfig[k]
                 /\ Survives(gc, k) => sent[k] = Clamp(k, Coerce(k, gc[k]).val)
                 /\ NothingUsable(gc, k) \/ Survives(gc, k) \/ sent[k] = DefaultGenerationConfig[k]
           /\ ("responseMimeType" \in DOMAIN sent) <=> args.json_mode
           /\ args.json_mode => sent["responseMimeType"] = JsonMime

\* a JSON-mode call with temperature 2.5 and a topK that is no number: the
\* payload posted carries temperature 2.0 and the default topK
C32_Witness ==
    /\ op = "payload" /\ Len(calls) = 1 /\ args.json_mode
    /\ DOMAIN args.generation_config = {"temperature", "topK"}
    /\ args.generation_config["temperature"] = Val("float", 250)
    /\ args.generation_config["topK"] = Val("badstr", 0)
    /\ cfg.dict["temperature"] = Val("float", 200)
    /\ cfg.dict["topK"] = Val("int", 64)

\* the positions in the transport log of the requests not yet answered
PendingCalls == {k \in DOMAIN calls : calls[k].code = -1}

\* C33: within one call chain at most one request is in flight, it is the
\* latest one issued, and a request (retry POST, fallback POST, submission or
\* status request) is issued only when every earlier one has been answered by
\* a response or has failed.
C33_AttemptsSequential ==
    /\ [](/\ Cardinality(PendingCalls) <= 1 /\ Cardinality(inflight) <= 1
          /\ PendingCalls \subseteq {Len(calls)}
          /\ (PendingCalls = {}) <=> (inflight = {}))
    /\ [][ Len(calls') > Len(calls) =>
              /\ PendingCalls = {} /\ inflight = {}
              /\ Len(calls') = Len(calls) + 1
              /\ inflight' = {calls'[Len(calls')].url}
       ]_vars

\* the primary was posted to three times, each answered before the next, and
\* the POST to the fallback is in flight
C33_Witness ==
    /\ op = "text" /\ Len(models) = 2 /\ Len(calls) = 4 /\ PendingCalls = {4}
    /\ calls[3].url = TextUrl(models[1]) /\ calls[4].url = TextUrl(models[2])
    /\ inflight = {TextUrl(models[2])}

\* C34: under any interleaving of two call chains, a step changes the frame of
\* one chain only (attempt counter, attempt chain and index, last error, poll
\* interval, result and number of requests of the other stay as they are), and
\* the new frame is the one the chain would reach with the same answer if it
\* ran alone: it depends on the chain's own frame and on the answer to its own
\* request, never on the other chain.
C34_ChainsShareNoState ==
    [][ op = "chains" =>
          \E c \in ChainIds :
             /\ \A o \in ChainIds \ {c} : chains'[o] = chains[o]
             /\ LET alone == [x \in {c} |-> chains[c]] IN
                  \/ chains[c] = NoFrame /\ chains'[c] \in StartedFrames
                  \/ /\ chains[c].pc = "await"
                     /\ \E r \in ResponsesFor(chains[c]) : chains'[c] = Resume(alone, c, r)
                  \/ chains[c].pc = "sleep" /\ chains'[c] = Wake(alone, c)
      ]_vars

\* a text chain is in the backoff sleep after its first attempt while the other
\* text chain has failed over to its fallback after three attempts
C34_Witness ==
    /\ op = "chains"
    /\ chains[1].kind = "text" /\ chains[1].pc = "sleep" /\ chains[1].attempt = 0
    /\ chains[2].kind = "text" /\ chains[2].i = 2 /\ chains[2].posts = 4
    /\ chains[2].pc = "await"

\* the requests sent so far to the endpoint of the first model of the chain
\* are DefaultMaxRetries failures, each a retryable status or a network error
PrimaryKeptFailing ==
    /\ Cardinality(CallsTo(TextUrl(models[1]))) = DefaultMaxRetries
    /\ \A k \in CallsTo(TextUrl(models[1])) :
          calls[k].code = 0 \/ calls[k].code \in RETRYABLE_STATUS_CODES

\* C35: with a fallback in the chain, no request goes to the primary endpoint
\* after the first request to the fallback endpoint; while the primary answers
\* retryable statuses or network errors, a request to the fallback endpoint
\* comes only after all max_retries (3) requests to the primary; and once the
\* primary has failed that way three times the call does not end before the
\* fallback is attempted: an allowlisted fallback has been sent a request, and
\* an error that ends the call is the fallback's.
C35_PrimaryExhaustedBeforeFallback ==
    (op = "text" /\ Len(models) = 2) =>
        LET P == TextUrl(models[1])
            F == TextUrl(models[2])
        IN /\ P # F
           /\ \A k \in DOMAIN calls : calls[k].url \in {P, F}
           /\ \A j, k \in DOMAIN calls :
                 (j < k /\ calls[j].url = F) => calls[k].url = F
           /\ ( /\ CallsTo(F) # {} /\ CallsTo(P) # {}
                /\ \A k \in CallsTo(P) :
                      calls[k].code = 0 \/ calls[k].code \in RETRYABLE_STATUS_CODES )
              => /\ CallsTo(P) = 1..DefaultMaxRetries
                 /\ \A k \in CallsTo(F) : k > DefaultMaxRetries
           /\ (PrimaryKeptFailing /\ pc = "done") =>
                 /\ i = 2 \/ (i = 3 /\ result.kind = "raise")
                 /\ models[2] \in TEXT_MODEL_ALLOWLIST => CallsTo(F) # {}
                 /\ result.kind = "raise" => result.err.model = models[2]

\* three network errors or retryable statuses from the primary, then the
\* fallback answers with text
C35_Witness ==
    /\ op = "text" /\ Len(models) = 2 /\ pc = "done"
    /\ PrimaryKeptFailing
    /\ calls[1].code = 0 /\ calls[2].code = 503 /\ calls[3].code = 0
    /\ Len(calls) = 4 /\ calls[4].url = TextUrl(models[2]) /\ calls[4].code = 200
    /\ result.kind = "return"

\* the endpoints of the models of the attempt chain
ChainUrls == {TextUrl(models[k]) : k \in DOMAIN models}

\* C36: a call of gemini_generate_text whose primary is not xstory sends at
\* most 2 * max_retries = 6 POSTs whatever the provider answers: the chain
\* has at most two models, every request goes to the endpoint of one of them,
\* and no endpoint is sent more than max_retries = 3 requests.
C36_AtMostSixPosts ==
    (op = "text" /\ StrLower(Primary) # S("xstory")) =>
        /\ Len(models) <= 2
        /\ \A k \in DOMAIN calls : calls[k].url \in ChainUrls
        /\ \A u \in ChainUrls : Cardinality(CallsTo(u)) <= DefaultMaxRetries
        /\ Len(calls) <= 2 * DefaultMaxRetries
        /\ Len(calls) <= 6

\* six requests: three network errors or retryable statuses per model
C36_Witness ==
    /\ op = "text" /\ StrLower(Primary) # S("xstory") /\ pc = "done"
    /\ Len(calls) = 6 /\ Len(models) = 2
    /\ Cardinality(CallsTo(TextUrl(models[1]))) = 3
    /\ Cardinality(CallsTo(TextUrl(models[2]))) = 3
    /\ calls[5].code = 0 /\ calls[6].code = 503
    /\ result.kind = "raise"

\* the /runsync path meets one of the failures its try block catches: a
\* network error, an HTTP-status error of the submission or of a status
\* request, or the polling timeout
RunsyncFailsCaught ==
    \/ pc \in {"rp_handle", "poll_handle"} /\ rp_res.kind = "net"
    \/ /\ pc = "rp_handle" /\ rp_res.kind = "http"
       /\ (rp_res.status < 200 \/ rp_res.status >= 300)
    \/ /\ pc = "poll_handle" /\ rp_res.kind = "http"
       /\ rp_res.status >= 400 /\ rp_res.status \notin RUNPOD_RETRYABLE_STATUS_CODES
    \/ pc = "poll_check" /\ elapsed > effective_timeout_s

\* the /runsync path meets a FAILED job or a payload it cannot use
RunsyncFailsForGood ==
    /\ rp_res.kind = "http"
    /\ \/ /\ pc = "rp_handle" /\ rp_res.status >= 200 /\ rp_res.status < 300
          /\ \/ ~rp_res.body.json
             \/ /\ _extract_runpod_text(rp_res.body.data) = Empty
                /\ IdOf(rp_res.body.data) = Empty
       \/ /\ pc = "poll_handle" /\ rp_res.status < 400
          /\ \/ ~rp_res.body.json
             \/ StatusOf(rp_res.body.data) = S("FAILED")
             \/ /\ StatusOf(rp_res.body.data) = S("COMPLETED")
                /\ _extract_runpod_text(rp_res.body.data) = Empty

\* C37: in non-JSON mode a /runsync path that fails with an HTTP-status error,
\* a network error or the polling timeout goes on to submit the job with /run,
\* and nothing else sends it there; a FAILED job or an unusable payload on the
\* /runsync path ends the call with that error and without a request to /run,
\* and nothing else ends the /runsync path with an error.  So a call sends at
\* most one POST to /runsync and at most two to /run.
C37_RunsyncFallsThroughOrRaises ==
    /\ [](ViaAdapter =>
            /\ Cardinality(CallsTo(RunsyncUrl)) <= 1
            /\ Cardinality(CallsTo(RunUrl)) <= 2
            /\ args.json_mode => CallsTo(RunsyncUrl) = {}
            /\ CallsTo(RunsyncUrl) \subseteq {1})
    /\ [][ ( /\ ViaAdapter /\ ~args.json_mode /\ rp_phase = "runsync"
             /\ pc \in {"rp_handle", "poll_check", "poll_handle"} )
           => /\ RunsyncFailsCaught =>
                    /\ pc' = "rp_post" /\ rp_phase' = "run" /\ rp_attempt' = 0
                    /\ result' = Pending /\ calls' = calls
              /\ rp_phase' = "run" => RunsyncFailsCaught
              /\ RunsyncFailsForGood =>
                    /\ pc' = "done" /\ result'.kind = "raise"
                    /\ result'.err.type \notin RunsyncCaught
                    /\ calls' = calls /\ CallsTo(RunUrl) = {}
              /\ (pc' = "done" /\ result'.kind = "raise") => RunsyncFailsForGood
       ]_vars

\* /runsync answered a job id, the polling timed out, /run was submitted twice
C37_Witness ==
    /\ ViaAdapter /\ ~args.json_mode /\ rp_phase = "run"
    /\ Cardinality(CallsTo(RunsyncUrl)) = 1
    /\ Cardinality(CallsTo(RunUrl)) = 2
    /\ \E k \in DOMAIN calls : Head(calls[k].url) = "status" /\ k < Len(calls) - 1
                                   /\ calls[k + 1].url = RunUrl /\ calls[k].code = 200

\* the answer to the last request of the engine run is a success status
LastAnswerSuccess == res.kind = "http" /\ res.status >= 200 /\ res.status < 300

\* C38: a run of _execute_with_retry with max_retries >= 1 sends at least one
\* request and ends in exactly one of four ways, decided by the last answer:
\* the parsed body of a 2xx answer is returned, the HTTP-status error of a
\* non-2xx answer is raised, the network error is raised, or the body-parse
\* error of a 2xx answer that is not JSON is raised.  The generic "Max
\* retries exceeded" exception is raised only when max_retries <= 0, and then
\* the run has sent no request.
C38_EngineEndsOneOfFourWays ==
    exec_out.kind # "pending" =>
        /\ max_retries >= 1 =>
              /\ Len(EngineCalls) >= 1 /\ Len(EngineCalls) <= max_retries
              /\ HowMany(<<exec_out.kind = "return",
                           exec_out.kind = "raise" /\ exec_out.err.type = "HTTPStatusError",
                           exec_out.kind = "raise" /\ exec_out.err.type = "RequestError",
                           exec_out.kind = "raise" /\ exec_out.err.type = "JSONDecodeError">>) = 1
              /\ exec_out.kind = "return" <=> (LastAnswerSuccess /\ res.body.json)
              /\ exec_out.kind = "return" => exec_out = ReturnBody(res.body)
              /\ exec_out.kind = "raise" =>
                    /\ exec_out.err.type = "HTTPStatusError"
                          <=> (res.kind = "http" /\ ~LastAnswerSuccess)
                    /\ exec_out.err.type = "RequestError" <=> res.kind = "net"
                    /\ exec_out.err.type = "JSONDecodeError"
                          <=> (LastAnswerSuccess /\ ~res.body.json)
                    /\ exec_out.err.msg # "Max retries exceeded"
        /\ (exec_out.kind = "raise" /\ exec_out.err.msg = "Max retries exceeded") =>
              /\ max_retries <= 0 /\ calls = << >> /\ exec_out.err.type = "Exception"
        /\ max_retries <= 0 =>
              /\ exec_out = Raise(Err("Exception", 0, LogModel, "Max retries exceeded"))
              /\ calls = << >>

\* max_retries = 4: three failures each followed by a retry, then a 200 whose
\* body is not JSON
C38_Witness ==
    /\ op = "execute" /\ max_retries = 4 /\ pc = "done"
    /\ Len(calls) = 4
    /\ calls[1].code = 503 /\ calls[2].code = 0 /\ calls[3].code = 503 /\ calls[4].code = 200
    /\ result.kind = "raise" /\ result.err.type = "JSONDecodeError"

\* the stories of other users than the one the endpoint has just answered
OthersStories(d, user_id) == {id \in StoryIds : d[id] # NoRow /\ d[id].user_id # user_id}

\* C39: whatever list, get, upsert and delete requests the users have sent,
\* a request of user B leaves every story of another user A as it was (not
\* modified, not deleted, not taken over), B's list holds none of A's
\* stories, B's get and delete on the id of a story of A answer 404 Not
\* Found, and an upsert of B with that id does not succeed and changes
\* nothing of A's story.
C39_StoriesIsolatedPerUser ==
    [][ op = "stories" =>
          \A id \in OthersStories(db, reply'.user) :
             /\ db'[id] = db[id]
             /\ reply'.op = "list" =>
                   /\ Occurrences(reply'.items, id) = 0
                   /\ \A k \in DOMAIN reply'.items :
                         db[reply'.items[k].id].user_id = reply'.user
             /\ (reply'.op \in {"get", "delete"} /\ reply'.id = id) => reply'.status = 404
             /\ (reply'.op = "upsert" /\ reply'.id = id) =>
                   /\ reply'.status # 200
                   /\ get_story(db', id, db[id].user_id) = get_story(db, id, db[id].user_id)
      ]_vars

\* user 2 has just tried to upsert under the id of a story of user 1, which
\* is still user 1's with its title
C39_Witness ==
    /\ op = "stories"
    /\ reply.op = "upsert" /\ reply.user = 2 /\ reply.id = S("story123")
    /\ reply.status # 200
    /\ db[S("story123")] # NoRow /\ db[S("story123")].user_id = 1
    /\ db[S("story123")].title = S("My Epic Story")
    /\ db[S("del123")] # NoRow /\ db[S("del123")].user_id = 2

\* the lower-cased address is in the users table, in some letter case
RegisteredAnyCase(rows, email) ==
    \E k \in DOMAIN rows : StrLower(rows[k].email) = StrLower(email)

\* C40: under any interleaving of signup requests no two rows of the users
\* table have the same lower-cased email, and a token is issued only to the
\* request that inserted the row of its address; a step of a signup whose
\* address is registered in some letter case inserts no row, and ends the
\* request without a token (400 at the select, 500 when a concurrent signup
\* has committed the address between the select and the commit).
C40_OneUserPerLowerCasedEmail ==
    /\ [](op = "signup" =>
            /\ \A j, k \in DOMAIN user_rows :
                  StrLower(user_rows[j].email) = StrLower(user_rows[k].email) => j = k
            /\ \A r \in SignupIds :
                  signups[r].token # NoToken =>
                     /\ signups[r].status = 200
                     /\ signups[r].token.sub = StrLower(signups[r].email)
                     /\ \E k \in DOMAIN user_rows :
                           /\ user_rows[k].request = r
                           /\ user_rows[k].email = StrLower(signups[r].email)
            /\ \A r, q \in SignupIds :
                  ( /\ signups[r].token # NoToken /\ signups[q].token # NoToken
                    /\ StrLower(signups[r].email) = StrLower(signups[q].email) ) => r = q)
    /\ [][ op = "signup" =>
             \A r \in SignupIds :
                ( /\ signups[r].pc \in {"select", "commit"}
                  /\ signups'[r] # signups[r]
                  /\ RegisteredAnyCase(user_rows, signups[r].email) )
                => /\ user_rows' = user_rows
                   /\ signups'[r].pc = "done"
                   /\ signups'[r].token = NoToken
                   /\ signups'[r].status = IF signups[r].pc = "select" THEN 400 ELSE 500
       ]_vars

\* two concurrent signups for the same address in different letter cases:
\* both passed the select, one inserted the row and got the token, the other
\* was rejected at the commit
C40_Witness ==
    /\ op = "signup"
    /\ Len(user_rows) = 1 /\ user_rows[1].request = 1
    /\ user_rows[1].email = <<"test", "@", "example.com">>
    /\ signups[1].email = <<"Test", "@", "example.com">>
    /\ signups[1].pc = "done" /\ signups[1].token # NoToken
    /\ signups[2].email = <<"TEST", "@", "example.com">>
    /\ signups[2].pc = "done" /\ signups[2].status = 500
    /\ signups[3].pc = "done" /\ signups[3].status = 400

============================================================================
